---- MODULE Spec2Model ----
(***************************************************************************)
(* Model of the RAG orchestration core of the chatbot backend:             *)
(*   app/services/spoon_graph_service.py  (SpoonGraphService)              *)
(*   app/services/rag_graph_service.py    (generate_response)              *)
(* Text is modelled as a sequence of characters over a two-letter          *)
(* alphabet (a blank and a letter), so that str.strip() is computed.       *)
(***************************************************************************)
EXTENDS Integers, Sequences, FiniteSets, TLC

\* ------------------------------------------------------------------------
\* Bounds of the model
\* ------------------------------------------------------------------------
MaxChain == 2

\* longest evidence list enumerated item by item
MaxSortLen == 3

\* number of document types and items per type in the long evidence lists
NumTypes == 4

MaxBucket == 4

\* longest "results" list a tool returns
MaxToolItems == 2

\* longest evidence list and largest limit given to _build_citation_section
MaxCiteLen == 4

MaxLimit == 2

\* ------------------------------------------------------------------------
\* Values
\* ------------------------------------------------------------------------
\* None where a name (provider, label, tool) is expected
Null == "None"

\* None where a text is expected (texts are sequences of characters)
NoText == <<"None">>

\* Python text values the LLM can return as response.content
Contents == {NoText, <<>>, <<" ">>, <<"a">>, <<" ", "a">>, <<"a", " ">>}

RECURSIVE LStrip(_)
LStrip(s) == IF s = <<>> THEN <<>>
             ELSE IF Head(s) = " " THEN LStrip(Tail(s)) ELSE s

RECURSIVE RStrip(_)
RStrip(s) == IF s = <<>> THEN <<>>
             ELSE IF s[Len(s)] = " " THEN RStrip(SubSeq(s, 1, Len(s) - 1)) ELSE s

\* str.strip()
Strip(s) == RStrip(LStrip(s))

\* (value or "")
OrEmpty(v) == IF v = NoText THEN <<>> ELSE v

\* ProviderPreference(provider, label, kwargs); of kwargs the entries "model"
\* and "provider" are kept (Null: no such key)
Preferences ==
    { [provider |-> "gemini", label |-> "gemini-2.0-flash", model |-> "gemini-2.0-flash",
       kwargs_provider |-> Null],
      [provider |-> "openai", label |-> "openai", model |-> Null, kwargs_provider |-> Null],
      [provider |-> Null, label |-> "default", model |-> Null, kwargs_provider |-> Null] }

\* _default_llm_chain with no GEMINI_MODEL configured and its two built-in models
DefaultChain ==
    << [provider |-> "gemini", label |-> "gemini-2.0-flash", model |-> "gemini-2.0-flash",
        kwargs_provider |-> Null],
       [provider |-> "gemini", label |-> "gemini-1.5-pro-latest",
        model |-> "gemini-1.5-pro-latest", kwargs_provider |-> Null] >>

\* the chains the constructor can store: non-empty, in configured order
Chains == UNION { [1..n -> Preferences] : n \in 1..MaxChain }

\* what one llm_manager.chat(...) call can do: raise, or return a response
\* with a content and a reported provider (None, empty or a name)
LLMOutcomes ==
    { [raises |-> TRUE, content |-> NoText, provider |-> Null] } \cup
    { [raises |-> FALSE, content |-> c, provider |-> p] :
        c \in Contents, p \in {Null, "", "gemini"} }

\* truthiness of an optional name
Truthy(s) == s # Null /\ s # ""

\* response.provider or preference.label or provider_name or "default"
ReportedProviderLabelOnly(response, preference) ==
    IF Truthy(preference.label) THEN preference.label
    ELSE IF Truthy(preference.provider) THEN preference.provider
    ELSE "default"

ReportedProvider(response, preference) ==
    IF Truthy(response.provider) THEN response.provider
    ELSE IF Truthy(preference.label) THEN preference.label
    ELSE IF Truthy(preference.provider) THEN preference.provider
    ELSE "default"

\* the preference after `kwargs = preference.kwargs` and
\* kwargs["provider"] = provider_name, the dict of the preference written to
PreferenceAfterTryAliased(preference) ==
    IF preference.provider # Null /\ preference.provider # ""
    THEN [preference EXCEPT !.kwargs_provider = preference.provider]
    ELSE preference

\* the preference after kwargs = dict(preference.kwargs) if preference.kwargs
\* else {} and kwargs["provider"] = provider_name: the write goes to the copy
PreferenceAfterTry(preference) == preference

\* the keyword arguments of llm_manager.chat(messages, **kwargs)
ChatKwargs(preference) ==
    [model |-> preference.model,
     provider |-> IF preference.provider # Null /\ preference.provider # ""
                  THEN preference.provider ELSE preference.kwargs_provider]

\* one iteration of the loop of _call_llm: the try body for one preference
TryPreference(preference, outcome) ==
    IF outcome.raises
    THEN [ok |-> FALSE, content |-> NoText, provider |-> Null]
    ELSE LET content == Strip(OrEmpty(outcome.content))
         IN IF content # <<>>
            THEN [ok |-> TRUE, content |-> content,
                  provider |-> ReportedProvider(outcome, preference)]
            ELSE [ok |-> FALSE, content |-> NoText, provider |-> Null]

\* ------------------------------------------------------------------------
\* State
\* ------------------------------------------------------------------------
VARIABLES
    llm_manager,          \* self.llm_manager is not None
    llm_provider_chain,   \* self.llm_provider_chain
    llm_pc,               \* position of _call_llm: idle, loop, returned
    llm_idx,              \* index of the preference the loop is at
    llm_calls,            \* preferences called so far (indices), in call order
    llm_outcomes,         \* what each of those calls did
    llm_result            \* the returned (content, provider)

llmVars == <<llm_manager, llm_provider_chain, llm_pc, llm_idx, llm_calls,
             llm_outcomes, llm_result>>

NoResult == [content |-> NoText, provider |-> Null]

\* providers = self.llm_provider_chain or self._default_llm_chain()
Providers(chain) == IF chain # <<>> THEN chain ELSE DefaultChain

\* ------------------------------------------------------------------------
\* _call_llm, one step per awaited llm_manager.chat call
\* ------------------------------------------------------------------------
LLMInit ==
    /\ llm_manager \in BOOLEAN
    /\ llm_provider_chain \in Chains
    /\ llm_pc = "idle"
    /\ llm_idx = 0
    /\ llm_calls = <<>>
    /\ llm_outcomes = <<>>
    /\ llm_result = NoResult

\* entry of _call_llm: no manager returns (None, None) at once
LLMStart ==
    /\ llm_pc = "idle"
    /\ IF ~llm_manager
       THEN /\ llm_pc' = "returned"
            /\ llm_idx' = 0
       ELSE /\ llm_pc' = "loop"
            /\ llm_idx' = 1
    /\ llm_result' = NoResult
    /\ UNCHANGED <<llm_manager, llm_provider_chain, llm_calls, llm_outcomes>>

\* where the loop goes after the try body of preference i
LoopAfterStopAtEnd(i, n, ok) == IF i >= n THEN "returned" ELSE "loop"

LoopAfter(i, n, ok) == IF ok \/ i >= n THEN "returned" ELSE "loop"

\* one loop iteration: call the preference at llm_idx and handle its outcome
LLMTry ==
    /\ llm_pc = "loop"
    /\ llm_idx <= Len(Providers(llm_provider_chain))
    /\ \E outcome \in LLMOutcomes :
         LET preference == Providers(llm_provider_chain)[llm_idx]
             r == TryPreference(preference, outcome)
             n == Len(Providers(llm_provider_chain))
         IN /\ llm_calls' = Append(llm_calls, llm_idx)
            /\ llm_provider_chain' =
                 IF llm_provider_chain = <<>> THEN llm_provider_chain
                 ELSE [llm_provider_chain EXCEPT
                         ![llm_idx] = PreferenceAfterTry(preference)]
            /\ llm_outcomes' = Append(llm_outcomes, outcome)
            /\ llm_pc' = LoopAfter(llm_idx, n, r.ok)
            /\ llm_idx' = llm_idx + 1
            /\ llm_result' = IF r.ok THEN [content |-> r.content, provider |-> r.provider]
                             ELSE NoResult
    /\ UNCHANGED llm_manager

\* ------------------------------------------------------------------------
\* generate_response (rag_graph_service): primary chain with retry, then the
\* secondary provider, then the document fallback
\* ------------------------------------------------------------------------
\* settings.LLM_RETRY_ATTEMPTS
LLM_RETRY_ATTEMPTS == 3

\* settings.LLM_RETRY_BASE_DELAY and settings.LLM_RETRY_MAX_DELAY, in seconds
LLM_RETRY_BASE_DELAY == 2

LLM_RETRY_MAX_DELAY == 60

\* the base delays an installation can be configured with
BaseDelays == {LLM_RETRY_BASE_DELAY, 40}

\* random.uniform(0, 1), in tenths of a second
Jitters == {0, 5, 10}

\* base_delay * (2 ** attempt), without the cap
BackoffDelayUncapped(base_delay, attempt) == base_delay * 2^attempt

\* delay = min(base_delay * (2 ** attempt), max_delay)
BackoffDelay(base_delay, attempt) ==
    IF base_delay * 2^attempt <= LLM_RETRY_MAX_DELAY
    THEN base_delay * 2^attempt ELSE LLM_RETRY_MAX_DELAY

\* gemini_models: settings.GEMINI_MODEL and the two fallback models
GeminiModels == <<"gemini-2.5-flash", "gemini-2.0-flash-exp", "gemini-1.5-pro">>

\* settings.OLLAMA_MODEL
OLLAMA_MODEL == "qwen2.5:7b"

\* what an awaited llm_manager.chat(provider="gemini", ...) can do; an
\* exception has a type and a message (str(e))
ErrorMessages == {"Rate Limit exceeded", "quota exhausted", "HTTP 429", "connection reset", ""}

GenOutcomes ==
    { [raises |-> FALSE, type |-> Null, message |-> ""] } \cup
    { [raises |-> TRUE, type |-> t, message |-> m] :
        t \in {"RateLimitError", "Exception"}, m \in ErrorMessages }

\* "rate limit" in error_detail or "quota" in error_detail or "429" in error_detail,
\* with error_detail = str(e).lower()
HasRateLimitMarker(message) ==
    message \in {"Rate Limit exceeded", "quota exhausted", "HTTP 429"}

\* the except clause an exception lands in: "typed" (except RateLimitError),
\* or in except Exception "marker" (its message has a marker) or "other"
ExceptBranch(outcome) ==
    IF ~outcome.raises THEN "ok"
    ELSE IF outcome.type = "RateLimitError" THEN "typed"
    ELSE IF HasRateLimitMarker(outcome.message) THEN "marker"
    ELSE "other"

\* only the typed exception taken as a rate limit
IsRateLimitClassTypedOnly(outcome) ==
    outcome.raises /\ outcome.type = "RateLimitError"

\* the except clauses: RateLimitError, or another exception with a marker
IsRateLimitClass(outcome) ==
    /\ outcome.raises
    /\ (outcome.type = "RateLimitError" \/ HasRateLimitMarker(outcome.message))

OutcomeClass(outcome) ==
    IF ~outcome.raises THEN "ok"
    ELSE IF IsRateLimitClass(outcome) THEN "ratelimit" ELSE "error"

\* if attempt < max_retries - 1: sleep and continue, else break
RetrySameModelEarlyBreak(attempt) == attempt < LLM_RETRY_ATTEMPTS - 2

\* a retry loop with no bound on the attempts
RetrySameModelAlways(attempt) == TRUE

RetrySameModel(attempt) == attempt < LLM_RETRY_ATTEMPTS - 1

\* if settings.OLLAMA_ENABLED
OllamaAttemptedAlways(enabled) == TRUE

OllamaAttempted(enabled) == enabled

VARIABLES
    gen_manager,      \* state["llm_manager"] is present
    gen_ollama,       \* settings.OLLAMA_ENABLED
    gen_docs,         \* number of state["retrieved_documents"]
    gen_pc,           \* start, primary, secondary, done
    gen_model,        \* index of the model the outer loop is at
    gen_attempt,      \* attempt of the inner loop, from 0
    gen_calls,        \* every provider call made, in order, with its outcome class,
                      \* the except branch taken and the backoff slept after it
    gen_base,         \* settings.LLM_RETRY_BASE_DELAY of the installation
    gen_sleep,        \* the last argument of asyncio.sleep, in tenths of a second
    gen_result        \* the returned dict

genVars == <<gen_manager, gen_ollama, gen_docs, gen_pc, gen_model, gen_attempt,
             gen_calls, gen_base, gen_sleep, gen_result>>

GenNoResult == [kind |-> Null, provider_used |-> Null, error |-> Null]

\* generate_fallback_response
generate_fallback_response(docs) ==
    IF docs = 0
    THEN [kind |-> "apology", provider_used |-> "fallback", error |-> "No documents found"]
    ELSE [kind |-> "documents", provider_used |-> "fallback", error |-> Null]

GenInit ==
    /\ gen_manager \in BOOLEAN
    /\ gen_ollama \in BOOLEAN
    /\ gen_docs \in 0..1
    /\ gen_pc = "start"
    /\ gen_model = 0
    /\ gen_attempt = 0
    /\ gen_calls = <<>>
    /\ gen_base \in BaseDelays
    /\ gen_sleep = 0
    /\ gen_result = GenNoResult

\* entry: without a manager the function returns an error dict at once
GenStart ==
    /\ gen_pc = "start"
    /\ IF ~gen_manager
       THEN /\ gen_pc' = "done"
            /\ gen_result' = [kind |-> "empty", provider_used |-> Null,
                               error |-> "LLM manager not found"]
            /\ gen_model' = 0
       ELSE /\ gen_pc' = "primary"
            /\ gen_result' = GenNoResult
            /\ gen_model' = 1
    /\ gen_attempt' = 0
    /\ UNCHANGED <<gen_manager, gen_ollama, gen_docs, gen_calls, gen_base, gen_sleep>>

\* one awaited call of the current model at the current attempt, and what the
\* try/except does with its outcome (the backoff sleep included)
GenCall ==
    /\ gen_pc = "primary"
    /\ gen_model <= Len(GeminiModels)
    /\ gen_attempt < LLM_RETRY_ATTEMPTS
    /\ \E outcome \in GenOutcomes :
         LET class == OutcomeClass(outcome)
             retry == class = "ratelimit" /\ RetrySameModel(gen_attempt)
             last == gen_model = Len(GeminiModels)
             delay == IF retry THEN BackoffDelay(gen_base, gen_attempt) ELSE 0
         IN /\ gen_calls' = Append(gen_calls,
                   [target |-> "gemini", model |-> gen_model,
                    attempt |-> gen_attempt, class |-> class,
                    branch |-> ExceptBranch(outcome),
                    slept |-> retry, delay |-> delay])
            /\ IF retry
               THEN \E jitter \in Jitters : gen_sleep' = 10 * delay + jitter
               ELSE gen_sleep' = gen_sleep
            /\ IF class = "ok"
               THEN /\ gen_pc' = "done"
                    /\ gen_result' = [kind |-> "llm",
                                       provider_used |-> GeminiModels[gen_model],
                                       error |-> Null]
                    /\ UNCHANGED <<gen_model, gen_attempt>>
               ELSE IF retry
               THEN /\ gen_attempt' = gen_attempt + 1
                    /\ UNCHANGED <<gen_pc, gen_model, gen_result>>
               ELSE /\ gen_model' = gen_model + 1
                    /\ gen_attempt' = 0
                    /\ gen_pc' = IF last THEN "secondary" ELSE "primary"
                    /\ UNCHANGED gen_result
    /\ UNCHANGED <<gen_manager, gen_ollama, gen_docs, gen_base>>

\* after the primary chain: the Ollama call when enabled, else (or when it
\* fails) the document fallback
GenSecondary ==
    /\ gen_pc = "secondary"
    /\ IF OllamaAttempted(gen_ollama)
       THEN \E ok \in BOOLEAN :
              /\ gen_calls' = Append(gen_calls,
                     [target |-> "ollama", model |-> 0, attempt |-> 0,
                      class |-> IF ok THEN "ok" ELSE "error",
                      branch |-> IF ok THEN "ok" ELSE "other",
                      slept |-> FALSE, delay |-> 0])
              /\ gen_result' = IF ok
                                THEN [kind |-> "llm", provider_used |-> OLLAMA_MODEL,
                                      error |-> Null]
                                ELSE generate_fallback_response(gen_docs)
       ELSE /\ gen_calls' = gen_calls
            /\ gen_result' = generate_fallback_response(gen_docs)
    /\ gen_pc' = "done"
    /\ UNCHANGED <<gen_manager, gen_ollama, gen_docs, gen_model, gen_attempt,
                   gen_base, gen_sleep>>

\* ------------------------------------------------------------------------
\* Evidence and _prioritize_evidence (spoon_graph_service)
\* ------------------------------------------------------------------------
\* An evidence item is a record: id (its place among the inputs), content,
\* and the metadata fields document_type, retrieval_tool and distance.

\* metadata without a numeric "distance"
NoDistance == -1

\* float("inf")
Infinity == 1000000

\* min_per_bucket
MIN_PER_BUCKET == 3

\* max_total
MAX_TOTAL == 10

Min(a, b) == IF a <= b THEN a ELSE b

PolicyTool == "policy_txt_lookup"

OpsTool == "ops_txt_lookup"

\* _distance_key
DistanceKeyMissingFirst(item) ==
    IF item.distance = NoDistance THEN 0 ELSE item.distance

DistanceKey(item) ==
    IF item.distance = NoDistance THEN Infinity ELSE item.distance

\* sorted(..., key=_distance_key) and list.sort: stable, ascending
RECURSIVE InsertByKey(_, _)
InsertByKey(sorted, item) ==
    IF sorted = <<>> THEN <<item>>
    ELSE IF DistanceKey(Head(sorted)) <= DistanceKey(item)
         THEN <<Head(sorted)>> \o InsertByKey(Tail(sorted), item)
         ELSE <<item>> \o sorted

RECURSIVE SortedByDistance(_)
SortedByDistance(seq) ==
    IF seq = <<>> THEN <<>>
    ELSE InsertByKey(SortedByDistance(SubSeq(seq, 1, Len(seq) - 1)), seq[Len(seq)])

\* key = meta.get("document_type") or meta.get("retrieval_tool") or "other"
BucketKey(item) ==
    IF Truthy(item.document_type) THEN item.document_type
    ELSE IF Truthy(item.retrieval_tool) THEN item.retrieval_tool
    ELSE "other"

InSeq(x, seq) == \E i \in DOMAIN seq : seq[i] = x

AppendNew(seq, x) == IF InSeq(x, seq) THEN seq ELSE Append(seq, x)

\* buckets.keys(): the keys in the order they were first met
RECURSIVE BucketKeys(_)
BucketKeys(evidence) ==
    IF evidence = <<>> THEN <<>>
    ELSE AppendNew(BucketKeys(SubSeq(evidence, 1, Len(evidence) - 1)),
                   BucketKey(evidence[Len(evidence)]))

ItemsOfKey(evidence, key) ==
    LET IsKey(item) == BucketKey(item) = key IN SelectSeq(evidence, IsKey)

\* the buckets after bucket.sort(key=_distance_key)
SortedBuckets(evidence) ==
    [key \in {BucketKey(evidence[i]) : i \in DOMAIN evidence} |->
        SortedByDistance(ItemsOfKey(evidence, key))]

\* tool_to_doc.get(tool)
ToolToDoc(tool) ==
    IF tool = PolicyTool THEN "policy"
    ELSE IF tool = OpsTool THEN "ops" ELSE Null

RECURSIVE ToolOrdering(_)
ToolOrdering(tool_calls) ==
    IF tool_calls = <<>> THEN <<>>
    ELSE LET before == ToolOrdering(SubSeq(tool_calls, 1, Len(tool_calls) - 1))
             doc_type == ToolToDoc(tool_calls[Len(tool_calls)])
         IN IF Truthy(doc_type) THEN AppendNew(before, doc_type) ELSE before

RECURSIVE AppendAllNew(_, _)
AppendAllNew(seq, keys) ==
    IF keys = <<>> THEN seq ELSE AppendAllNew(AppendNew(seq, Head(keys)), Tail(keys))

\* ordering: the planned tools' document types, then the other bucket keys
BucketOrdering(evidence, tool_calls) ==
    AppendAllNew(ToolOrdering(tool_calls), BucketKeys(evidence))

\* buckets.get(key), None read as the empty list
BucketOf(st, key) == IF key \in DOMAIN st.buckets THEN st.buckets[key] ELSE <<>>

\* prioritized.append(bucket.pop(0)), n times
PopInto(st, key, n) ==
    IF n = 0 THEN st
    ELSE [buckets |-> [st.buckets EXCEPT ![key] = SubSeq(@, n + 1, Len(@))],
          out |-> st.out \o SubSeq(st.buckets[key], 1, n)]

\* how many items the first pass takes from a bucket
FirstPassTakeWholeBucket(size, have) == Min(size, MAX_TOTAL - have)

FirstPassTake(size, have) == Min(Min(MIN_PER_BUCKET, size), MAX_TOTAL - have)

\* first pass: the minimum from each bucket, in ordering, up to max_total
RECURSIVE FirstPass(_, _, _)
FirstPass(ordering, i, st) ==
    IF i > Len(ordering) THEN st
    ELSE LET key == ordering[i]
             n == FirstPassTake(Len(BucketOf(st, key)), Len(st.out))
             st2 == PopInto(st, key, n)
         IN IF Len(st2.out) >= MAX_TOTAL THEN st2
            ELSE FirstPass(ordering, i + 1, st2)

\* one sweep of the second pass over ordering
RECURSIVE RoundRobin(_, _, _)
RoundRobin(ordering, i, st) ==
    IF i > Len(ordering) THEN st
    ELSE LET key == ordering[i]
         IN IF BucketOf(st, key) # <<>> /\ Len(st.out) < MAX_TOTAL
            THEN RoundRobin(ordering, i + 1, PopInto(st, key, 1))
            ELSE RoundRobin(ordering, i + 1, st)

\* second pass: sweeps until max_total is reached or nothing was added
RECURSIVE SecondPass(_, _)
SecondPass(ordering, st) ==
    IF Len(st.out) >= MAX_TOTAL THEN st
    ELSE LET st2 == RoundRobin(ordering, 1, st)
         IN IF Len(st2.out) = Len(st.out) THEN st2 ELSE SecondPass(ordering, st2)

\* _prioritize_evidence
PrioritizeEvidence(evidence, tool_calls) ==
    IF evidence = <<>> THEN evidence
    ELSE IF Len(tool_calls) <= 1 THEN SortedByDistance(evidence)
    ELSE LET ordering == BucketOrdering(evidence, tool_calls)
             st0 == [buckets |-> SortedBuckets(evidence), out |-> <<>>]
         IN SecondPass(ordering, FirstPass(ordering, 1, st0)).out

VARIABLES
    prio_pc,          \* input, done
    prio_evidence,    \* argument evidence
    prio_tool_calls,  \* argument tool_calls
    prio_out          \* the returned list

prioVars == <<prio_pc, prio_evidence, prio_tool_calls, prio_out>>

\* document types a stored chunk can carry (current and legacy values)
DocumentTypes == <<"policy", "ops", "policies", "technical", "processes", "guidelines">>

\* the tool that serves a document type
ToolOfType(document_type) ==
    IF document_type \in {"ops", "technical", "processes"} THEN OpsTool ELSE PolicyTool

\* evidence lists as run() builds them: ids are the places in the list
WithIds(shapes) ==
    [i \in DOMAIN shapes |->
        [id |-> i, content |-> <<"a">>,
         document_type |-> shapes[i].document_type,
         retrieval_tool |-> IF Truthy(shapes[i].document_type)
                            THEN ToolOfType(shapes[i].document_type)
                            ELSE PolicyTool,
         distance |-> shapes[i].distance]]

\* short lists: every list of up to MaxSortLen items over a few distances
ShortShapes ==
    [document_type : {"policy", "ops", Null}, distance : {0, 1, NoDistance}]

ShortLists == UNION { [1..n -> ShortShapes] : n \in 0..MaxSortLen }

\* long lists: size[c] items of each document type c, listed type after
\* type ("grouped") or in turns ("mixed"), with distances that rise or fall
RECURSIVE Grouped(_, _, _)
Grouped(size, falling, c) ==
    IF c > NumTypes THEN <<>>
    ELSE [j \in 1..size[c] |->
             [document_type |-> DocumentTypes[c],
              distance |-> IF falling THEN size[c] - j ELSE j]]
         \o Grouped(size, falling, c + 1)

RECURSIVE Mixed(_, _, _, _)
Mixed(size, falling, c, j) ==
    IF j > MaxBucket THEN <<>>
    ELSE IF c > NumTypes THEN Mixed(size, falling, 1, j + 1)
    ELSE (IF j <= size[c]
          THEN << [document_type |-> DocumentTypes[c],
                   distance |-> IF falling THEN size[c] - j ELSE j] >>
          ELSE <<>>)
         \o Mixed(size, falling, c + 1, j)

LongLists ==
    { Grouped(size, falling, 1) : size \in [1..NumTypes -> 0..MaxBucket],
                                  falling \in BOOLEAN }
    \cup
    { Mixed(size, falling, 1, 1) : size \in [1..NumTypes -> 0..MaxBucket],
                                   falling \in BOOLEAN }

\* tool_calls as run() can build it: the successful tools, in plan order
ToolCallLists == {<<>>, <<PolicyTool>>, <<OpsTool>>, <<PolicyTool, OpsTool>>}

PrioInit ==
    /\ prio_pc = "input"
    /\ prio_tool_calls \in ToolCallLists
    /\ \E shapes \in ShortLists \cup LongLists : prio_evidence = WithIds(shapes)
    /\ prio_tool_calls = <<>> => prio_evidence = <<>>
    /\ prio_out = <<>>

Prioritize ==
    /\ prio_pc = "input"
    /\ prio_out' = PrioritizeEvidence(prio_evidence, prio_tool_calls)
    /\ prio_pc' = "done"
    /\ UNCHANGED <<prio_evidence, prio_tool_calls>>

PrioIdle ==
    /\ prio_pc = "off"
    /\ prio_evidence = <<>>
    /\ prio_tool_calls = <<>>
    /\ prio_out = <<>>

\* ------------------------------------------------------------------------
\* _call_llm as one step, for the stages of run()
\* ------------------------------------------------------------------------
\* a text is a sequence of lexemes: a blank " ", a comma "," or a word

\* the loop of _call_llm over the outcomes of the successive chat calls
RECURSIVE CallLLMFrom(_, _, _)
CallLLMFrom(chain, i, outcomes) ==
    IF i > Len(chain) THEN NoResult
    ELSE LET r == TryPreference(chain[i], outcomes[i])
         IN IF r.ok THEN [content |-> r.content, provider |-> r.provider]
            ELSE CallLLMFrom(chain, i + 1, outcomes)

CallLLM(manager, chain, outcomes) ==
    IF ~manager THEN NoResult ELSE CallLLMFrom(Providers(chain), 1, outcomes)

\* the outcomes of the calls of one _call_llm, the replies being texts of a
\* given set: each call raises, returns only blanks, or returns a reply
OutcomesOver(chain, replies) ==
    [1..Len(Providers(chain)) ->
        { [raises |-> TRUE, content |-> NoText, provider |-> Null] } \cup
        { [raises |-> FALSE, content |-> c, provider |-> Null] :
            c \in replies \cup {<<" ">>} }]

\* ------------------------------------------------------------------------
\* Query preprocessing: _rewrite_query, _detect_intent_llm, _plan_tools
\* ------------------------------------------------------------------------
\* len(user_query.split()): the words of a text
WordCount(text) == Cardinality({i \in DOMAIN text : text[i] # " "})

\* queries of four and of five words
UserQueries ==
    { <<"w1", " ", "w2", " ", "w3", " ", "w4">>,
      <<"w1", " ", "w2", " ", "w3", " ", "w4", " ", "w5">> }

RewriteReplies == { <<" ", "w1", " ", "w2">> }

\* _rewrite_query: [query, provider], and whether _call_llm was awaited
RewriteQueryAnyLength(manager, chain, user_query, outcomes) ==
    IF ~manager THEN [query |-> user_query, provider |-> Null, called |-> FALSE]
    ELSE LET r == CallLLM(manager, chain, outcomes)
         IN IF r.content # NoText /\ r.content # <<>>
            THEN [query |-> r.content, provider |-> r.provider, called |-> TRUE]
            ELSE [query |-> user_query, provider |-> Null, called |-> TRUE]

RewriteQuery(manager, chain, user_query, outcomes) ==
    IF ~manager THEN [query |-> user_query, provider |-> Null, called |-> FALSE]
    ELSE IF WordCount(user_query) <= 4
    THEN [query |-> user_query, provider |-> Null, called |-> FALSE]
    ELSE LET r == CallLLM(manager, chain, outcomes)
         IN IF r.content # NoText /\ r.content # <<>>
            THEN [query |-> r.content, provider |-> r.provider, called |-> TRUE]
            ELSE [query |-> user_query, provider |-> Null, called |-> TRUE]

\* str.lower() on lexemes
LowerWord(w) ==
    IF w = "POLICY" THEN "policy" ELSE IF w = "Ops" THEN "ops" ELSE w

Lower(text) == [i \in DOMAIN text |-> LowerWord(text[i])]

\* str.split(","): the pieces between the commas
RECURSIVE SplitComma(_)
SplitComma(text) ==
    IF \A i \in DOMAIN text : text[i] # "," THEN <<text>>
    ELSE LET c == CHOOSE i \in DOMAIN text :
                    text[i] = "," /\ \A j \in 1..(i - 1) : text[j] # ","
         IN <<SubSeq(text, 1, c - 1)>> \o SplitComma(SubSeq(text, c + 1, Len(text)))

\* [token.strip() for token in cleaned.split(",") if token.strip()]
IntentTokens(content) ==
    LET pieces == SplitComma(Strip(Lower(OrEmpty(content))))
        stripped == [i \in DOMAIN pieces |-> Strip(pieces[i])]
        NonEmpty(t) == t # <<>>
    IN SelectSeq(stripped, NonEmpty)

IntentReplies ==
    { <<"policy">>, <<" ", "Ops", " ">>, <<"POLICY", ",", " ", "ops">>,
      <<"policy", " ", "ops">>, <<"ambiguous">>, <<",", ",">> }

\* the tie-break table of _detect_intent_llm
IntentOfNeitherIsPolicy(has_policy, has_ops) ==
    IF has_policy /\ has_ops THEN "ambiguous"
    ELSE IF has_ops THEN "ops"
    ELSE "policy"

IntentOf(has_policy, has_ops) ==
    IF has_policy /\ has_ops THEN "ambiguous"
    ELSE IF has_policy THEN "policy"
    ELSE IF has_ops THEN "ops"
    ELSE "ambiguous"

\* _detect_intent_llm: [intent, provider]
DetectIntentLLM(manager, chain, outcomes) ==
    IF ~manager THEN [intent |-> "ambiguous", provider |-> Null]
    ELSE LET r == CallLLM(manager, chain, outcomes)
             tokens == IntentTokens(r.content)
             has_policy == \E i \in DOMAIN tokens : tokens[i] = <<"policy">>
             has_ops == \E i \in DOMAIN tokens : tokens[i] = <<"ops">>
         IN [intent |-> IntentOf(has_policy, has_ops), provider |-> r.provider]

\* _plan_tools
PlanToolsOpsFirst(intent) ==
    IF intent = "policy" THEN <<PolicyTool>>
    ELSE IF intent = "ops" THEN <<OpsTool>>
    ELSE <<OpsTool, PolicyTool>>

PlanTools(intent) ==
    IF intent = "policy" THEN <<PolicyTool>>
    ELSE IF intent = "ops" THEN <<OpsTool>>
    ELSE <<PolicyTool, OpsTool>>

\* ------------------------------------------------------------------------
\* _split_query_by_intent and _derive_tool_queries
\* ------------------------------------------------------------------------
\* A reply to the split prompt is a text that holds one JSON value: on its
\* own ("bare"), inside a ``` fence ("fenced") or after some words ("prose").
\* The JSON value is an object with the two fields, an array holding such an
\* object, another array, a number, a string, null, or no JSON at all.
\* A field is absent, null, a string, a number or an array (num: its length).
FieldValues ==
    { [type |-> "absent", text |-> <<>>, num |-> 0],
      [type |-> "null", text |-> <<>>, num |-> 0],
      [type |-> "string", text |-> <<>>, num |-> 0],
      [type |-> "string", text |-> <<" ">>, num |-> 0],
      [type |-> "string", text |-> <<"w1">>, num |-> 0],
      [type |-> "number", text |-> <<>>, num |-> 0],
      [type |-> "number", text |-> <<>>, num |-> 5],
      [type |-> "array", text |-> <<>>, num |-> 1] }

AbsentField == [type |-> "absent", text |-> <<>>, num |-> 0]

SplitReplies ==
    { [form |-> "bare", type |-> "object", policy_query |-> pq, ops_query |-> oq] :
        pq \in FieldValues, oq \in FieldValues }
    \cup
    { [form |-> f, type |-> "object",
       policy_query |-> [type |-> "string", text |-> <<"w1">>, num |-> 0],
       ops_query |-> [type |-> "string", text |-> <<"w2">>, num |-> 0]] :
        f \in {"fenced", "prose"} }
    \cup
    { [form |-> f, type |-> t, policy_query |-> AbsentField, ops_query |-> AbsentField] :
        f \in {"bare", "fenced", "prose"},
        t \in {"array", "number", "string", "null", "garbage"} }
    \cup
    { [form |-> "bare", type |-> "array_of_object",
       policy_query |-> [type |-> "string", text |-> <<"w1">>, num |-> 0],
       ops_query |-> AbsentField] }

\* lines 230-243: the text handed to json.loads, as [wrapped, type]: wrapped
\* when words or a fence still surround the JSON value
ExtractJSON(reply) ==
    IF reply.form = "fenced"
    THEN \* re.search(```(?:json)?\s*(\{.*?\})\s*```)
         IF reply.type = "object" THEN [wrapped |-> FALSE, type |-> "object"]
         ELSE [wrapped |-> TRUE, type |-> reply.type]
    ELSE IF reply.form = "bare" /\ reply.type = "object"
    THEN [wrapped |-> FALSE, type |-> "object"]
    ELSE \* re.search(\{.*?\})
         IF reply.type \in {"object", "array_of_object"}
         THEN [wrapped |-> FALSE, type |-> "object"]
         ELSE [wrapped |-> reply.form # "bare", type |-> reply.type]

\* json.loads: "error" for JSONDecodeError, else the type of the value
JsonLoads(extracted) ==
    IF extracted.wrapped \/ extracted.type = "garbage" THEN "error"
    ELSE extracted.type

\* (data.get(key) or "").strip(): [raised, text]
FieldText(field) ==
    IF field.type \in {"absent", "null"} THEN [raised |-> FALSE, text |-> <<>>]
    ELSE IF field.type = "string" THEN [raised |-> FALSE, text |-> Strip(field.text)]
    ELSE IF field.num = 0 THEN [raised |-> FALSE, text |-> <<>>]
    ELSE [raised |-> TRUE, text |-> <<>>]

NoSplit == [raised |-> FALSE, policy |-> NoText, ops |-> NoText]

SplitRaised == [raised |-> TRUE, policy |-> NoText, ops |-> NoText]

\* lines 245-258: json.loads inside the try; data.get and .strip() after it
ParseSplit(reply) ==
    LET loaded == JsonLoads(ExtractJSON(reply))
    IN IF loaded = "error" THEN NoSplit
       ELSE IF loaded # "object" THEN SplitRaised
       ELSE LET pq == FieldText(reply.policy_query)
                oq == FieldText(reply.ops_query)
            IN IF pq.raised \/ oq.raised THEN SplitRaised
               ELSE [raised |-> FALSE,
                     policy |-> IF pq.text # <<>> THEN pq.text ELSE NoText,
                     ops |-> IF oq.text # <<>> THEN oq.text ELSE NoText]

\* what the chat calls of the split prompt return as text: the reply (its
\* structure is given apart, as a member of SplitReplies)
SplitReplyTexts == { <<"json">> }

\* _split_query_by_intent; reply is the structure of the text the call returned
SplitQueryByIntent(manager, chain, outcomes, reply) ==
    IF ~manager THEN NoSplit
    ELSE LET r == CallLLM(manager, chain, outcomes)
         IN IF r.content = NoText THEN NoSplit ELSE ParseSplit(reply)

\* _derive_tool_queries: [raised, queries]
DeriveToolQueriesPolicyForAll(plan, rewritten_query, split) ==
    [raised |-> split.raised,
     queries |-> [tool \in {plan[i] : i \in DOMAIN plan} |->
                    IF split.policy # NoText THEN split.policy ELSE rewritten_query]]

DeriveToolQueries(plan, rewritten_query, split) ==
    LET default == [tool \in {plan[i] : i \in DOMAIN plan} |-> rewritten_query]
        policy_set == split.policy # NoText /\ InSeq(PolicyTool, plan)
        ops_set == split.ops # NoText /\ InSeq(OpsTool, plan)
    IN IF split.raised THEN [raised |-> TRUE, queries |-> default]
       ELSE [raised |-> FALSE,
             queries |-> [tool \in DOMAIN default |->
                            IF tool = PolicyTool /\ policy_set THEN split.policy
                            ELSE IF tool = OpsTool /\ ops_set THEN split.ops
                            ELSE rewritten_query]]

\* ------------------------------------------------------------------------
\* Tool calls: _execute_tool, _parse_tool_result, _extract_evidence
\* ------------------------------------------------------------------------
\* An entry of a "results" list: an object with content and metadata, or
\* something that is no object.
GoodEntry ==
    [is_object |-> TRUE, content |-> <<"a">>, document_type |-> Null, distance |-> 1]

BlankEntry ==
    [is_object |-> TRUE, content |-> <<" ">>, document_type |-> Null, distance |-> 0]

\* an entry farther from the query than GoodEntry
FarEntry ==
    [is_object |-> TRUE, content |-> <<"b">>, document_type |-> Null, distance |-> 2]

BadEntry ==
    [is_object |-> FALSE, content |-> <<>>, document_type |-> Null, distance |-> NoDistance]

\* the "results" lists: up to MaxToolItems objects, those without a snippet
\* first, a list that is not in order of distance, or a list that holds a
\* non-object
EntryLists ==
    UNION { { [i \in 1..(b + g) |-> IF i <= b THEN BlankEntry ELSE GoodEntry] :
                g \in 0..(MaxToolItems - b) } : b \in 0..MaxToolItems }
    \cup { <<FarEntry, GoodEntry>>, <<BadEntry>>, <<GoodEntry, BadEntry>> }

\* What tool.execute can do: raise (with a message), or return None or a text.
\* The text is no JSON ("garbage"), a JSON array, or a JSON object whose
\* "results" is absent, a list of entries or a number, and which names its
\* document_type or not.
RawResults(tool) ==
    { [kind |-> "raises", message |-> m, type |-> "none", results |-> "absent",
       entries |-> <<>>, document_type |-> Null] : m \in {"boom", ""} }
    \cup
    { [kind |-> "none", message |-> "", type |-> "none", results |-> "absent",
       entries |-> <<>>, document_type |-> Null] }
    \cup
    { [kind |-> "text", message |-> "", type |-> t, results |-> "absent",
       entries |-> <<>>, document_type |-> Null] : t \in {"garbage", "array"} }
    \cup
    { [kind |-> "text", message |-> "", type |-> "object", results |-> "number",
       entries |-> <<>>, document_type |-> ToolToDoc(tool)] }
    \cup
    { [kind |-> "text", message |-> "", type |-> "object", results |-> "list",
       entries |-> entries, document_type |-> ToolToDoc(tool)] : entries \in EntryLists }
    \cup
    { [kind |-> "text", message |-> "", type |-> "object", results |-> "list",
       entries |-> <<GoodEntry>>, document_type |-> Null] }

EmptyPayload ==
    [type |-> "object", results |-> "absent", entries |-> <<>>, document_type |-> Null]

\* _parse_tool_result
ParseToolResult(raw) ==
    IF raw.kind = "none" THEN EmptyPayload
    ELSE IF raw.type = "garbage" THEN EmptyPayload   \* {"raw_text": raw}
    ELSE [type |-> raw.type, results |-> raw.results, entries |-> raw.entries,
          document_type |-> raw.document_type]

\* _execute_tool: (tool_name, parsed, error)
ExecuteTool(tool, initialized, raw) ==
    IF ~initialized
    THEN [tool |-> tool, payload |-> EmptyPayload, error |-> "not initialized"]
    ELSE IF raw.kind = "raises"
    THEN [tool |-> tool, payload |-> EmptyPayload, error |-> raw.message]
    ELSE [tool |-> tool, payload |-> ParseToolResult(raw), error |-> Null]

\* ids of the entries of a tool: hundreds for the tool, units for the place
IdBase(tool) == IF tool = PolicyTool THEN 100 ELSE 200

\* _extract_evidence and the tagging loop of run(): [raised, items]
ExtractEvidence(tool, payload) ==
    IF payload.type # "object" THEN [raised |-> TRUE, items |-> <<>>]
    ELSE IF payload.results = "absent" THEN [raised |-> FALSE, items |-> <<>>]
    ELSE IF payload.results # "list" THEN [raised |-> TRUE, items |-> <<>>]
    ELSE IF \E i \in DOMAIN payload.entries : ~payload.entries[i].is_object
    THEN [raised |-> TRUE, items |-> <<>>]
    ELSE [raised |-> FALSE,
          items |-> [i \in DOMAIN payload.entries |->
                       [id |-> IdBase(tool) + i,
                        content |-> payload.entries[i].content,
                        document_type |->
                            IF Truthy(payload.document_type)
                               /\ ~Truthy(payload.entries[i].document_type)
                            THEN payload.document_type
                            ELSE payload.entries[i].document_type,
                        retrieval_tool |-> tool,
                        distance |-> payload.entries[i].distance]]]

\* results = await asyncio.gather(*tasks): the results in task order
GatherInCompletionOrder(plan, returned, order) ==
    [i \in DOMAIN order |-> returned[order[i]]]

Gather(plan, returned, order) ==
    [i \in DOMAIN plan |-> returned[plan[i]]]

\* gather returns once every task has completed
GatherOnFirstCompletion(plan, order) == order # <<>>

GatherJoined(plan, order) == \A i \in DOMAIN plan : InSeq(plan[i], order)

\* the tool_runs entry of a failed call, lines 703-705
ToolRunErrorWithCount(tool, error, query) ==
    [tool |-> tool, has_error |-> TRUE, error |-> error,
     has_count |-> TRUE, result_count |-> 0, query |-> query]

ToolRunError(tool, error, query) ==
    [tool |-> tool, has_error |-> TRUE, error |-> error,
     has_count |-> FALSE, result_count |-> 0, query |-> query]

\* the tool_runs entry of a call that returned, lines 725-731
ToolRunCount(tool, count, query) ==
    [tool |-> tool, has_error |-> FALSE, error |-> Null,
     has_count |-> TRUE, result_count |-> count, query |-> query]

\* the loop of run() over results, lines 697-731:
\* [raised, evidence, tool_calls, tool_runs]
RECURSIVE AggregateFrom(_, _, _, _)
AggregateFrom(results, i, queries, acc) ==
    IF i > Len(results) THEN acc
    ELSE LET r == results[i]
             query == queries[r.tool]
         IN IF Truthy(r.error)
            THEN AggregateFrom(results, i + 1, queries,
                    [acc EXCEPT !.tool_runs = Append(@,
                        ToolRunError(r.tool, r.error, query))])
            ELSE LET extracted == ExtractEvidence(r.tool, r.payload)
                 IN IF extracted.raised
                    THEN [acc EXCEPT !.raised = TRUE,
                                     !.tool_calls = Append(@, r.tool)]
                    ELSE AggregateFrom(results, i + 1, queries,
                            [raised |-> FALSE,
                             evidence |-> acc.evidence \o extracted.items,
                             tool_calls |-> Append(acc.tool_calls, r.tool),
                             tool_runs |-> Append(acc.tool_runs,
                                ToolRunCount(r.tool, Len(extracted.items), query))])

Aggregated(results, queries) ==
    AggregateFrom(results, 1, queries,
        [raised |-> FALSE, evidence |-> <<>>, tool_calls |-> <<>>, tool_runs |-> <<>>])

\* ------------------------------------------------------------------------
\* Answer synthesis: _summarize_with_llm, _synthesize_response
\* ------------------------------------------------------------------------
\* max_per_type
MAX_PER_TYPE == 4

\* total_limit
TOTAL_LIMIT == 8

\* item.get("metadata", {}).get("document_type", "other")
TypeOrOther(item) ==
    IF item.document_type = Null THEN "other" ELSE item.document_type

\* evidence_by_type.keys(): the types in the order they were first met
RECURSIVE TypeKeys(_)
TypeKeys(evidence) ==
    IF evidence = <<>> THEN <<>>
    ELSE AppendNew(TypeKeys(SubSeq(evidence, 1, Len(evidence) - 1)),
                   TypeOrOther(evidence[Len(evidence)]))

IsBlank(text) == Strip(text) = <<>>

\* the inner loop over items[:max_per_type]
RECURSIVE ChunksOfItems(_, _, _)
ChunksOfItems(items, j, chunks) ==
    IF j > Min(Len(items), MAX_PER_TYPE) \/ Len(chunks) >= TOTAL_LIMIT THEN chunks
    ELSE IF IsBlank(items[j].content) THEN ChunksOfItems(items, j + 1, chunks)
    ELSE ChunksOfItems(items, j + 1, Append(chunks, items[j]))

\* the outer loop over evidence_by_type
RECURSIVE ChunksOfTypes(_, _, _, _)
ChunksOfTypes(evidence, types, t, chunks) ==
    IF t > Len(types) THEN chunks
    ELSE LET OfType(item) == TypeOrOther(item) = types[t]
             next == ChunksOfItems(SelectSeq(evidence, OfType), 1, chunks)
         IN IF Len(next) >= TOTAL_LIMIT THEN next
            ELSE ChunksOfTypes(evidence, types, t + 1, next)

Chunks(evidence) == ChunksOfTypes(evidence, TypeKeys(evidence), 1, <<>>)

SummaryReplies == { <<"a">> }

NoSummary == [text |-> NoText, provider |-> Null, mode |-> "snippet"]

\* _summarize_with_llm: (text, provider, mode)
SummarizeWithLLM(manager, chain, evidence, outcomes) ==
    IF ~manager \/ evidence = <<>> THEN NoSummary
    ELSE IF Chunks(evidence) = <<>> THEN NoSummary
    ELSE LET r == CallLLM(manager, chain, outcomes)
         IN IF r.content = NoText
            THEN [text |-> NoText, provider |-> r.provider, mode |-> "snippet"]
            ELSE [text |-> r.content, provider |-> r.provider, mode |-> "llm-summary"]

\* the lines of _synthesize_response: the items of evidence[:2] with a snippet
SnippetLines(evidence) ==
    LET HasSnippet(item) == ~IsBlank(item.content)
    IN SelectSeq(SubSeq(evidence, 1, Min(2, Len(evidence))), HasSnippet)

NoResponse == [kind |-> "none", lines |-> <<>>, extra |-> FALSE]

\* _synthesize_response
SynthesizeResponse(evidence) ==
    IF evidence = <<>> THEN NoResponse
    ELSE IF SnippetLines(evidence) = <<>> THEN NoResponse
    ELSE [kind |-> "snippet", lines |-> SnippetLines(evidence),
          extra |-> Len(evidence) > Len(SnippetLines(evidence))]

\* _infer_provider
InferProvider(tool_calls) ==
    IF tool_calls = <<>> THEN "spoon-graph"
    ELSE IF \A i \in DOMAIN tool_calls : tool_calls[i] = PolicyTool THEN "spoon-policy"
    ELSE IF \A i \in DOMAIN tool_calls : tool_calls[i] = OpsTool THEN "spoon-ops"
    ELSE "spoon-graph"

\* ------------------------------------------------------------------------
\* run(): one step per awaited stage; the tool calls complete in any order
\* ------------------------------------------------------------------------
VARIABLES
    run_pc,        \* start, rewrite, classify, derive, retrieve, summarize,
                   \* followup, done, raised
    run_in,        \* self.enabled, self._tools, and the arguments of run()
    run_pre,       \* rewritten_query, rewrite_provider, intent, intent_source,
                   \* intent_query, plan, tool_queries
    run_raw,       \* what each tool.execute call did (None: not completed)
    run_returned,  \* what each _execute_tool task returned
    run_order,     \* the tools in the order their tasks completed
    run_agg,       \* evidence, tool_calls, tool_runs, prioritized_evidence
    run_llm,       \* whether every chat call of the rewrite, and of the summary,
                   \* failed; whether the summary and follow-up calls gave text
    run_trace,     \* the awaited calls of run() in the order they were made, a
                   \* _call_llm that reaches llm_manager.chat by its purpose
    run_result     \* the returned dict

runVars == <<run_pc, run_in, run_pre, run_raw, run_returned, run_order, run_agg,
             run_llm, run_trace, run_result>>

AllTools == {PolicyTool, OpsTool}

NoPre ==
    [rewritten_query |-> <<>>, rewrite_provider |-> Null, intent |-> Null,
     intent_source |-> Null, intent_query |-> <<>>, plan |-> <<>>,
     tool_queries |-> <<>>]

NoAgg ==
    [evidence |-> <<>>, tool_calls |-> <<>>, tool_runs |-> <<>>, prioritized |-> <<>>]

NoLLM ==
    [rewrite_failed |-> FALSE, summary |-> FALSE, summary_failed |-> FALSE,
     followup |-> FALSE]

NoRunResult ==
    [kind |-> "none", error |-> Null, response |-> NoResponse, evidence |-> <<>>,
     provider_used |-> Null, intent |-> Null, tool_calls |-> <<>>,
     tool_runs |-> <<>>, answer_mode |-> Null, rewritten_query |-> NoText,
     suggestions |-> NoText]

\* "rewritten_query": rewritten_query if rewrite else None
MetadataRewrittenQuery(rewrite, rewritten_query) ==
    IF rewrite THEN rewritten_query ELSE NoText

\* the dict returned when there is no response: error and metadata only
NoAnswerWithoutDiagnostics(intent, tool_runs, rewrite, rewritten_query, suggestions) ==
    [NoRunResult EXCEPT !.kind = "no-answer", !.error = "graph-no-answer",
                        !.suggestions = suggestions]

NoAnswerResult(intent, tool_runs, rewrite, rewritten_query, suggestions) ==
    [NoRunResult EXCEPT
       !.kind = "no-answer",
       !.error = "graph-no-answer",
       !.intent = intent,
       !.tool_runs = tool_runs,
       !.rewritten_query = MetadataRewrittenQuery(rewrite, rewritten_query),
       !.suggestions = suggestions]

\* a tool.execute call that has not completed, and its task's result slot
NotCompleted ==
    [kind |-> "pending", message |-> "", type |-> "none", results |-> "absent",
     entries |-> <<>>, document_type |-> Null]

NotReturned(tool) == [tool |-> tool, payload |-> EmptyPayload, error |-> Null]

\* __init__: enabled follows the settings, and _build_mcp_tools either builds
\* every tool or fails and clears enabled
RunInit ==
    /\ run_pc = "start"
    /\ \E built \in BOOLEAN, setting \in BOOLEAN, rewrite \in BOOLEAN,
          user_query \in UserQueries :
         run_in = [enabled |-> setting /\ built,
                   tools |-> IF built THEN AllTools ELSE {PolicyTool},
                   rewrite |-> rewrite, user_query |-> user_query]
    /\ run_pre = NoPre
    /\ run_raw = [tool \in AllTools |-> NotCompleted]
    /\ run_returned = [tool \in AllTools |-> NotReturned(tool)]
    /\ run_order = <<>>
    /\ run_agg = NoAgg
    /\ run_llm = NoLLM
    /\ run_trace = <<>>
    /\ run_result = NoRunResult
    /\ llm_manager \in BOOLEAN
    /\ llm_provider_chain = DefaultChain
    /\ llm_pc = "off"
    /\ llm_idx = 0
    /\ llm_calls = <<>>
    /\ llm_outcomes = <<>>
    /\ llm_result = NoResult

\* entry of run(): a disabled service returns at once
RunStart ==
    /\ run_pc = "start"
    /\ IF ~run_in.enabled
       THEN /\ run_pc' = "done"
            /\ run_result' = [NoRunResult EXCEPT !.kind = "disabled",
                                                 !.error = "Spoon graph is disabled."]
       ELSE /\ run_pc' = "rewrite"
            /\ run_result' = run_result
    /\ UNCHANGED <<run_in, run_pre, run_raw, run_returned, run_order, run_agg, run_llm,
                   run_trace>>

\* await self._rewrite_query(user_query) if rewrite else (user_query, None)
RunRewrite ==
    /\ run_pc = "rewrite"
    /\ \E outcomes \in OutcomesOver(llm_provider_chain, RewriteReplies) :
         LET r == IF run_in.rewrite
                  THEN RewriteQuery(llm_manager, llm_provider_chain,
                                    run_in.user_query, outcomes)
                  ELSE [query |-> run_in.user_query, provider |-> Null,
                        called |-> FALSE]
         IN /\ run_pre' = [run_pre EXCEPT !.rewritten_query = r.query,
                                          !.rewrite_provider = r.provider]
            /\ run_llm' = [run_llm EXCEPT
                              !.rewrite_failed =
                                  /\ r.called
                                  /\ \A i \in DOMAIN outcomes :
                                       ~TryPreference(Providers(llm_provider_chain)[i],
                                                      outcomes[i]).ok]
            /\ run_trace' = IF ~run_in.rewrite THEN run_trace
                            ELSE IF r.called
                            THEN run_trace \o <<"_rewrite_query", "query-rewrite">>
                            ELSE Append(run_trace, "_rewrite_query")
    /\ run_pc' = "classify"
    /\ UNCHANGED <<run_in, run_raw, run_returned, run_order, run_agg, run_result>>

\* await self._detect_intent(rewritten_query); plan = self._plan_tools(intent)
RunClassify ==
    /\ run_pc = "classify"
    /\ \E outcomes \in OutcomesOver(llm_provider_chain, IntentReplies) :
         LET r == DetectIntentLLM(llm_manager, llm_provider_chain, outcomes)
         IN run_pre' = [run_pre EXCEPT
                          !.intent = r.intent,
                          !.intent_source = IF Truthy(r.provider) THEN r.provider ELSE "llm",
                          !.intent_query = run_pre.rewritten_query,
                          !.plan = PlanTools(r.intent)]
    /\ run_trace' = IF llm_manager
                    THEN run_trace \o <<"_detect_intent", "intent-detection", "_plan_tools">>
                    ELSE run_trace \o <<"_detect_intent", "_plan_tools">>
    /\ run_pc' = "derive"
    /\ UNCHANGED <<run_in, run_raw, run_returned, run_order, run_agg, run_llm, run_result>>

\* await self._derive_tool_queries(...), then the tasks are created
RunDerive ==
    /\ run_pc = "derive"
    /\ \E outcomes \in OutcomesOver(llm_provider_chain, SplitReplyTexts),
          reply \in SplitReplies :
         LET split == SplitQueryByIntent(llm_manager, llm_provider_chain, outcomes, reply)
             d == DeriveToolQueries(run_pre.plan, run_pre.rewritten_query, split)
         IN IF d.raised
            THEN /\ run_pc' = "raised"
                 /\ run_result' = [NoRunResult EXCEPT !.kind = "raised",
                                                      !.error = "AttributeError"]
                 /\ run_pre' = run_pre
            ELSE /\ run_pc' = "retrieve"
                 /\ run_result' = run_result
                 /\ run_pre' = [run_pre EXCEPT !.tool_queries = d.queries]
    /\ run_trace' = IF llm_manager
                    THEN run_trace \o <<"_derive_tool_queries", "intent-query-split">>
                    ELSE Append(run_trace, "_derive_tool_queries")
    /\ UNCHANGED <<run_in, run_raw, run_returned, run_order, run_agg, run_llm>>

\* one _execute_tool task completes
RunToolReturn(tool) ==
    /\ run_pc = "retrieve"
    /\ InSeq(tool, run_pre.plan)
    /\ ~InSeq(tool, run_order)
    /\ \E raw \in RawResults(tool) :
         /\ run_raw' = [run_raw EXCEPT ![tool] = raw]
         /\ run_returned' = [run_returned EXCEPT
                               ![tool] = ExecuteTool(tool, tool \in run_in.tools, raw)]
    /\ run_order' = Append(run_order, tool)
    /\ run_trace' = Append(run_trace, tool)
    /\ UNCHANGED <<run_pc, run_in, run_pre, run_agg, run_llm, run_result>>

\* asyncio.gather returns; the loop over results and _prioritize_evidence
\* run without suspension up to the await of _summarize_with_llm
RunAggregate ==
    /\ run_pc = "retrieve"
    /\ GatherJoined(run_pre.plan, run_order)
    /\ LET results == Gather(run_pre.plan, run_returned, run_order)
           agg == Aggregated(results, run_pre.tool_queries)
       IN IF agg.raised
          THEN /\ run_pc' = "raised"
               /\ run_result' = [NoRunResult EXCEPT !.kind = "raised",
                                                    !.error = "AttributeError"]
               /\ run_agg' = run_agg
          ELSE /\ run_pc' = "summarize"
               /\ run_result' = run_result
               /\ run_agg' = [evidence |-> agg.evidence,
                              tool_calls |-> agg.tool_calls,
                              tool_runs |-> agg.tool_runs,
                              prioritized |->
                                  PrioritizeEvidence(agg.evidence, agg.tool_calls)]
    /\ run_trace' = Append(run_trace, "gather")
    /\ UNCHANGED <<run_in, run_pre, run_raw, run_returned, run_order, run_llm>>

\* answer_mode = "snippet-fallback", line 733
DefaultAnswerMode == "snippet-fallback"

\* the success dict of run()
AnswerResult(response, answer_mode) ==
    [kind |-> "answer", error |-> Null, response |-> response,
     evidence |-> run_agg.evidence,
     provider_used |-> InferProvider(run_agg.tool_calls),
     intent |-> run_pre.intent,
     tool_calls |-> run_agg.tool_calls, tool_runs |-> run_agg.tool_runs,
     answer_mode |-> answer_mode,
     rewritten_query |-> MetadataRewrittenQuery(run_in.rewrite,
                                                run_pre.rewritten_query),
     suggestions |-> NoText]

\* await self._summarize_with_llm(...), then _synthesize_response when it
\* gave no text; a response ends run(), no response goes on to the follow-ups
RunSummarize ==
    /\ run_pc = "summarize"
    /\ \E outcomes \in OutcomesOver(llm_provider_chain, SummaryReplies) :
         LET summary == SummarizeWithLLM(llm_manager, llm_provider_chain,
                                         run_agg.prioritized, outcomes)
             snippet == SynthesizeResponse(run_agg.prioritized)
         IN /\ run_llm' = [run_llm EXCEPT
                              !.summary = summary.text # NoText,
                              !.summary_failed =
                                  \A i \in DOMAIN outcomes :
                                    ~TryPreference(Providers(llm_provider_chain)[i],
                                                   outcomes[i]).ok]
            /\ IF summary.text # NoText
               THEN /\ run_pc' = "done"
                    /\ run_result' = AnswerResult(
                           [kind |-> "llm-summary", lines |-> <<>>, extra |-> FALSE],
                           summary.mode)
               ELSE IF snippet.kind # "none"
               THEN /\ run_pc' = "done"
                    /\ run_result' = AnswerResult(snippet, DefaultAnswerMode)
               ELSE /\ run_pc' = "followup"
                    /\ run_result' = run_result
            /\ run_trace' =
                 run_trace \o <<"_summarize_with_llm">>
                   \o (IF llm_manager /\ Chunks(run_agg.prioritized) # <<>>
                       THEN <<"answer-summary">> ELSE <<>>)
                   \o (IF summary.text = NoText
                       THEN <<"_synthesize_response">> ELSE <<>>)
    /\ UNCHANGED <<run_in, run_pre, run_raw, run_returned, run_order, run_agg>>

FollowupReplies == { <<"a">> }

\* await self._suggest_followups_llm(user_query), then the no-answer dict
RunFollowup ==
    /\ run_pc = "followup"
    /\ \E outcomes \in OutcomesOver(llm_provider_chain, FollowupReplies) :
         LET r == CallLLM(llm_manager, llm_provider_chain, outcomes)
         IN /\ run_llm' = [run_llm EXCEPT !.followup = r.content # NoText]
            /\ run_result' = NoAnswerResult(run_pre.intent, run_agg.tool_runs,
                                            run_in.rewrite,
                                            run_pre.rewritten_query, r.content)
    /\ run_trace' = IF llm_manager
                    THEN run_trace \o <<"_suggest_followups_llm", "followup-suggestion">>
                    ELSE Append(run_trace, "_suggest_followups_llm")
    /\ run_pc' = "done"
    /\ UNCHANGED <<run_in, run_pre, run_raw, run_returned, run_order, run_agg>>

RunIdle ==
    /\ run_pc = "off"
    /\ run_in = [enabled |-> FALSE, tools |-> {}, rewrite |-> FALSE, user_query |-> <<>>]
    /\ run_pre = NoPre
    /\ run_raw = [tool \in AllTools |-> NotCompleted]
    /\ run_returned = [tool \in AllTools |-> NotReturned(tool)]
    /\ run_order = <<>>
    /\ run_agg = NoAgg
    /\ run_llm = NoLLM
    /\ run_trace = <<>>
    /\ run_result = NoRunResult

\* ------------------------------------------------------------------------
\* _build_citation_section
\* ------------------------------------------------------------------------
\* metadata of an evidence item as the citations read it: filename, source,
\* section (Null: absent)
CiteItems ==
    { [filename |-> "f1", source |-> Null, section |-> Null],
      [filename |-> "f1", source |-> Null, section |-> "s"],
      [filename |-> "f2", source |-> Null, section |-> Null],
      [filename |-> Null, source |-> "f1", section |-> Null],
      [filename |-> Null, source |-> Null, section |-> Null],
      [filename |-> Null, source |-> Null, section |-> "s"] }

\* meta.get("filename") or meta.get("source") or f"Tai lieu {idx}": a given
\* name has idx 0, the default name carries the place of the item
CiteName(item, idx) ==
    IF Truthy(item.filename) THEN [name |-> item.filename, idx |-> 0]
    ELSE IF Truthy(item.source) THEN [name |-> item.source, idx |-> 0]
    ELSE [name |-> "Tai lieu", idx |-> idx]

\* if filename in seen_files
AlreadyCitedNever(filename, seen_files) == FALSE

AlreadyCited(filename, seen_files) == filename \in seen_files

\* the loop over enumerate(evidence[:limit * 2], start=1)
RECURSIVE CitationLoop(_, _, _, _, _)
CitationLoop(evidence, limit, idx, lines, seen_files) ==
    IF idx > Min(Len(evidence), limit * 2) THEN lines
    ELSE LET filename == CiteName(evidence[idx], idx)
             section == IF Truthy(evidence[idx].section)
                        THEN evidence[idx].section ELSE ""
         IN IF AlreadyCited(filename, seen_files)
            THEN CitationLoop(evidence, limit, idx + 1, lines, seen_files)
            ELSE LET next == Append(lines, [filename |-> filename, section |-> section])
                 IN IF Len(next) >= limit THEN next
                    ELSE CitationLoop(evidence, limit, idx + 1, next,
                                      seen_files \cup {filename})

\* _build_citation_section: the lines under the heading (none: "")
BuildCitationSection(evidence, limit) == CitationLoop(evidence, limit, 1, <<>>, {})

VARIABLES
    cite_pc,        \* start, done
    cite_evidence,  \* the evidence argument
    cite_limit,     \* the limit argument
    cite_lines      \* the lines of the returned block

citeVars == <<cite_pc, cite_evidence, cite_limit, cite_lines>>

CiteInit ==
    /\ cite_pc = "start"
    /\ cite_evidence \in UNION { [1..n -> CiteItems] : n \in 0..MaxCiteLen }
    /\ cite_limit \in 0..MaxLimit
    /\ cite_lines = <<>>

Cite ==
    /\ cite_pc = "start"
    /\ cite_lines' = BuildCitationSection(cite_evidence, cite_limit)
    /\ cite_pc' = "done"
    /\ UNCHANGED <<cite_evidence, cite_limit>>

CiteIdle ==
    /\ cite_pc = "off"
    /\ cite_evidence = <<>>
    /\ cite_limit = 0
    /\ cite_lines = <<>>

\* ------------------------------------------------------------------------
\* The preprocessing stages of run() with their inputs kept: the replies of
\* the intent and split calls next to what the stages made of them
\* ------------------------------------------------------------------------
VARIABLES
    pre_pc,       \* classify, derive, done, raised
    pre_in,       \* self.llm_manager is set; the rewritten query
    pre_intent,   \* the chat outcomes of _detect_intent_llm, its intent and
                  \* provider, and the plan of _plan_tools
    pre_split     \* the chat outcomes and the reply of _split_query_by_intent,
                  \* and the queries of _derive_tool_queries

preVars == <<pre_pc, pre_in, pre_intent, pre_split>>

\* a reply that was never read
NoReply ==
    [form |-> "bare", type |-> "garbage", policy_query |-> AbsentField,
     ops_query |-> AbsentField]

NoPreIntent == [outcomes |-> <<>>, intent |-> Null, provider |-> Null, plan |-> <<>>]

NoPreSplit ==
    [called |-> FALSE, outcomes |-> <<>>, reply |-> NoReply, raised |-> FALSE,
     queries |-> <<>>]

PreInit ==
    /\ pre_pc = "classify"
    /\ pre_in \in [manager : BOOLEAN, rewritten_query : UserQueries]
    /\ pre_intent = NoPreIntent
    /\ pre_split = NoPreSplit

\* intent, intent_source, intent_query = await self._detect_intent(...);
\* plan = self._plan_tools(intent)
PreClassify ==
    /\ pre_pc = "classify"
    /\ \E outcomes \in OutcomesOver(DefaultChain, IntentReplies) :
         LET r == DetectIntentLLM(pre_in.manager, DefaultChain, outcomes)
         IN pre_intent' = [outcomes |-> IF pre_in.manager THEN outcomes ELSE <<>>,
                           intent |-> r.intent, provider |-> r.provider,
                           plan |-> PlanTools(r.intent)]
    /\ pre_pc' = "derive"
    /\ UNCHANGED <<pre_in, pre_split>>

\* tool_queries = await self._derive_tool_queries(...)
PreDerive ==
    /\ pre_pc = "derive"
    /\ \E outcomes \in OutcomesOver(DefaultChain, SplitReplyTexts),
          reply \in SplitReplies :
         LET called == pre_in.manager /\ pre_intent.plan # <<>>
             read == called /\ CallLLM(TRUE, DefaultChain, outcomes).content # NoText
             split == SplitQueryByIntent(pre_in.manager, DefaultChain, outcomes, reply)
             d == DeriveToolQueries(pre_intent.plan, pre_in.rewritten_query, split)
         IN /\ pre_split' = [called |-> called,
                             outcomes |-> IF called THEN outcomes ELSE <<>>,
                             reply |-> IF read THEN reply ELSE NoReply,
                             raised |-> d.raised, queries |-> d.queries]
            /\ pre_pc' = IF d.raised THEN "raised" ELSE "done"
    /\ UNCHANGED <<pre_in, pre_intent>>

PreIdle ==
    /\ pre_pc = "off"
    /\ pre_in = [manager |-> FALSE, rewritten_query |-> <<>>]
    /\ pre_intent = NoPreIntent
    /\ pre_split = NoPreSplit

\* ------------------------------------------------------------------------
\* Two calls of run() on one service, with stub providers and stub tools:
\* a stub answers a given prompt, and a given tool query, always the same way
\* ------------------------------------------------------------------------
\* run() from entry to return, for given stubs and a given order in which the
\* tool calls complete
RunOnce(env, order) ==
    IF ~env.enabled
    THEN [NoRunResult EXCEPT !.kind = "disabled", !.error = "Spoon graph is disabled."]
    ELSE
    LET chain == DefaultChain
        rewritten == IF env.rewrite
                     THEN RewriteQuery(env.manager, chain, env.user_query, env.rewrite_stub)
                     ELSE [query |-> env.user_query, provider |-> Null,
                           called |-> FALSE]
        detected == DetectIntentLLM(env.manager, chain, env.intent_stub)
        plan == PlanTools(detected.intent)
        split == SplitQueryByIntent(env.manager, chain, env.split_stub, env.split_reply)
        derived == DeriveToolQueries(plan, rewritten.query, split)
        returned == [tool \in AllTools |-> ExecuteTool(tool, TRUE, env.raw[tool])]
        Planned(tool) == InSeq(tool, plan)
        agg == Aggregated(Gather(plan, returned, SelectSeq(order, Planned)),
                          derived.queries)
        prioritized == PrioritizeEvidence(agg.evidence, agg.tool_calls)
        summary == SummarizeWithLLM(env.manager, chain, prioritized, env.answer_stub)
        snippet == SynthesizeResponse(prioritized)
        answer == [kind |-> "answer", error |-> Null, response |-> snippet,
                   evidence |-> agg.evidence,
                   provider_used |-> InferProvider(agg.tool_calls),
                   intent |-> detected.intent,
                   tool_calls |-> agg.tool_calls, tool_runs |-> agg.tool_runs,
                   answer_mode |-> DefaultAnswerMode,
                   rewritten_query |-> MetadataRewrittenQuery(env.rewrite,
                                                              rewritten.query),
                   suggestions |-> NoText]
    IN IF derived.raised \/ agg.raised
       THEN [NoRunResult EXCEPT !.kind = "raised", !.error = "AttributeError"]
       ELSE IF summary.text # NoText
       THEN [answer EXCEPT
               !.response = [kind |-> "llm-summary", lines |-> <<>>, extra |-> FALSE],
               !.answer_mode = summary.mode]
       ELSE IF snippet.kind # "none" THEN answer
       ELSE NoAnswerResult(detected.intent, agg.tool_runs, env.rewrite,
                           rewritten.query,
                           CallLLM(env.manager, chain, env.answer_stub).content)

\* a stub provider behind every preference of the chain: it raises, or it
\* gives the reply
StubOutcomes(replies) ==
    { [i \in 1..Len(DefaultChain) |-> o] :
        o \in { [raises |-> TRUE, content |-> NoText, provider |-> Null] } \cup
              { [raises |-> FALSE, content |-> c, provider |-> Null] : c \in replies } }

\* without an LLM manager no stub is asked
StubNone == [i \in 1..Len(DefaultChain) |->
               [raises |-> TRUE, content |-> NoText, provider |-> Null]]

\* the replies of the stub to the split prompt: the two sub-queries, or an array
StubSplitReplies ==
    { r \in SplitReplies :
        /\ r.form = "bare"
        /\ \/ r.type = "array"
           \/ /\ r.type = "object"
              /\ r.policy_query = [type |-> "string", text |-> <<"w1">>, num |-> 0]
              /\ r.ops_query = [type |-> "string", text |-> <<"w1">>, num |-> 0] }

\* the service, the arguments of run(), and the stubs
StubEnvs ==
    { [enabled |-> TRUE, manager |-> TRUE, rewrite |-> rewrite,
       user_query |-> <<"w1", " ", "w2", " ", "w3", " ", "w4", " ", "w5">>,
       rewrite_stub |-> rw, intent_stub |-> it, split_stub |-> sp,
       split_reply |-> reply, answer_stub |-> an,
       raw |-> [tool \in AllTools |-> IF tool = PolicyTool THEN policy ELSE ops]] :
        rewrite \in BOOLEAN,
        rw \in StubOutcomes(RewriteReplies),
        it \in StubOutcomes({<<"policy">>, <<" ", "Ops", " ">>, <<"ambiguous">>}),
        sp \in StubOutcomes(SplitReplyTexts) \ StubOutcomes({}),
        reply \in StubSplitReplies,
        an \in StubOutcomes(SummaryReplies),
        policy \in RawResults(PolicyTool), ops \in RawResults(OpsTool) }
    \cup
    { [enabled |-> enabled, manager |-> FALSE, rewrite |-> rewrite,
       user_query |-> <<"w1", " ", "w2", " ", "w3", " ", "w4", " ", "w5">>,
       rewrite_stub |-> StubNone, intent_stub |-> StubNone, split_stub |-> StubNone,
       split_reply |-> NoReply, answer_stub |-> StubNone,
       raw |-> [tool \in AllTools |-> IF tool = PolicyTool THEN policy ELSE ops]] :
        enabled \in BOOLEAN, rewrite \in BOOLEAN,
        policy \in RawResults(PolicyTool), ops \in RawResults(OpsTool) }

\* the orders in which the tool calls of a run can complete
CompletionOrders == { <<PolicyTool, OpsTool>>, <<OpsTool, PolicyTool>> }

VARIABLES
    twice_pc,       \* the number of calls of run() that have returned
    twice_env,      \* the service, the arguments and the stubs
    twice_orders,   \* the completion order of the tool calls of each call
    twice_results   \* what each call returned

twiceVars == <<twice_pc, twice_env, twice_orders, twice_results>>

TwiceInit ==
    /\ twice_pc = 0
    /\ twice_env \in StubEnvs
    /\ twice_orders = <<>>
    /\ twice_results = <<>>

\* one more call of run() with the same arguments
TwiceRun ==
    /\ twice_pc < 2
    /\ \E order \in CompletionOrders :
         /\ twice_orders' = Append(twice_orders, order)
         /\ twice_results' = Append(twice_results, RunOnce(twice_env, order))
    /\ twice_pc' = twice_pc + 1
    /\ UNCHANGED twice_env

TwiceIdle ==
    /\ twice_pc = 2
    /\ twice_env = [enabled |-> FALSE]
    /\ twice_orders = <<>>
    /\ twice_results = <<>>

\* ------------------------------------------------------------------------
\* The provider chain built by __init__ and read by _call_llm
\* ------------------------------------------------------------------------
SUPPORTED_LLM_PROVIDERS == {"gemini", "openai", "anthropic", "deepseek", "openrouter"}

\* str.lower() on the lexemes of a configuration text
LowerName(w) ==
    IF w = "Auto" THEN "auto"
    ELSE IF w = "OpenAI" THEN "openai"
    ELSE IF w = "Gemini-2.0-Flash" THEN "gemini-2.0-flash"
    ELSE w

LowerNames(text) == [i \in DOMAIN text |-> LowerName(text[i])]

\* normalized.startswith("gemini")
StartsWithGemini(normalized) ==
    /\ normalized # <<>>
    /\ normalized[1] \in {"gemini", "gemini-x", "gemini-2.0-flash", "gemini-2.5-flash"}

\* _parse_provider_entry returned None
NoPreference == [provider |-> Null, label |-> NoText, model |-> NoText]

\* _parse_provider_entry: ProviderPreference(provider, label, kwargs["model"])
ParseProviderEntry(raw_value) ==
    LET token == Strip(OrEmpty(raw_value))
        normalized == LowerNames(token)
        HasColon == \E i \in DOMAIN token : token[i] = ":"
        c == CHOOSE i \in DOMAIN token :
                 token[i] = ":" /\ \A j \in 1..(i - 1) : token[j] # ":"
        provider_name == LowerNames(Strip(SubSeq(token, 1, c - 1)))
        model == Strip(SubSeq(token, c + 1, Len(token)))
    IN IF token = <<>> THEN NoPreference
       ELSE IF normalized \in {<<"default">>, <<"auto">>}
       THEN [provider |-> Null, label |-> token, model |-> NoText]
       ELSE IF HasColon /\ Len(provider_name) = 1
                        /\ provider_name[1] \in SUPPORTED_LLM_PROVIDERS
       THEN [provider |-> provider_name[1], label |-> token,
             model |-> IF model # <<>> THEN model ELSE NoText]
       ELSE IF Len(normalized) = 1 /\ normalized[1] \in SUPPORTED_LLM_PROVIDERS
       THEN [provider |-> normalized[1], label |-> token, model |-> NoText]
       ELSE IF StartsWithGemini(normalized)
       THEN [provider |-> "gemini", label |-> token, model |-> token]
       ELSE NoPreference

\* the loop of _default_llm_chain: a model is kept unless it is empty or its
\* lower-case form was seen
RECURSIVE DefaultChainLoop(_, _, _)
DefaultChainLoop(preferred_models, seen, chain) ==
    IF preferred_models = <<>> THEN chain
    ELSE LET model == Head(preferred_models)
             key == LowerName(model)
         IN IF ~Truthy(model) \/ key \in seen
            THEN DefaultChainLoop(Tail(preferred_models), seen, chain)
            ELSE DefaultChainLoop(Tail(preferred_models), seen \cup {key},
                                  Append(chain, [provider |-> "gemini",
                                                 label |-> <<model>>,
                                                 model |-> <<model>>]))

\* _default_llm_chain, gemini_model being
\* os.getenv("GEMINI_MODEL") or getattr(settings, "GEMINI_MODEL", None)
DefaultLLMChain(gemini_model) ==
    LET chain == DefaultChainLoop(
                     <<gemini_model, "gemini-2.0-flash", "gemini-1.5-pro-latest">>,
                     {}, <<>>)
    IN IF chain = <<>>
       THEN <<[provider |-> "gemini", label |-> <<"gemini-2.5-pro">>, model |-> NoText]>>
       ELSE chain

\* the preferences of a configured chain text, unrecognized entries skipped
ParsedPreferences(chain) ==
    LET items == SplitComma(chain)
        parsed == [i \in DOMAIN items |-> ParseProviderEntry(items[i])]
        Recognized(pref) == pref # NoPreference
    IN SelectSeq(parsed, Recognized)

\* _load_llm_provider_chain without the default
LoadLLMProviderChainConfiguredOnly(setting, env, gemini_model) ==
    LET chain == IF setting # NoText /\ setting # <<>> THEN setting ELSE env
    IN IF chain # NoText /\ chain # <<>>
       THEN ParsedPreferences(chain)
       ELSE DefaultLLMChain(gemini_model)

\* _load_llm_provider_chain:
\* chain = settings.SPOON_LLM_PROVIDER_CHAIN or os.getenv("SPOON_LLM_PROVIDER_CHAIN")
LoadLLMProviderChain(setting, env, gemini_model) ==
    LET chain == IF setting # NoText /\ setting # <<>> THEN setting ELSE env
        preferences == ParsedPreferences(chain)
    IN IF chain # NoText /\ chain # <<>> /\ preferences # <<>>
       THEN preferences
       ELSE DefaultLLMChain(gemini_model)

\* the entries a configuration text is made of
MaxEntries == 2

ChainEntries ==
    { <<>>, <<" ">>, <<"Auto">>, <<" ", "openai">>, <<"OpenAI", ":", "m", " ">>,
      <<"gemini", ":">>, <<"foo", ":", "m">>, <<"foo">>, <<"gemini-2.5-flash">>,
      <<"gemini-x", ":", "m">> }

\* the entries joined by commas
RECURSIVE JoinComma(_)
JoinComma(entries) ==
    IF Len(entries) = 1 THEN entries[1]
    ELSE entries[1] \o <<",">> \o JoinComma(Tail(entries))

ChainTexts ==
    {NoText} \cup
    { JoinComma(entries) :
        entries \in UNION { [1..n -> ChainEntries] : n \in 1..MaxEntries } }

GeminiModelValues ==
    {Null, "", "gemini-2.0-flash", "Gemini-2.0-Flash", "gemini-2.5-flash"}

VARIABLES
    chain_pc,       \* "config", "built" (after __init__), "called" (in _call_llm)
    chain_cfg,      \* the configuration: setting, env, gemini_model
    chain_built,    \* self.llm_provider_chain
    chain_tried     \* the providers _call_llm iterates over

chainVars == <<chain_pc, chain_cfg, chain_built, chain_tried>>

ChainInit ==
    /\ chain_pc = "config"
    /\ chain_cfg \in [setting : ChainTexts, env : {NoText, <<"foo">>, <<"openai">>},
                      gemini_model : GeminiModelValues]
    /\ chain_built = <<>>
    /\ chain_tried = <<>>

\* self.llm_provider_chain = self._load_llm_provider_chain()
ChainLoad ==
    /\ chain_pc = "config"
    /\ chain_built' = LoadLLMProviderChain(chain_cfg.setting, chain_cfg.env,
                                           chain_cfg.gemini_model)
    /\ chain_pc' = "built"
    /\ UNCHANGED <<chain_cfg, chain_tried>>

\* providers = self.llm_provider_chain or self._default_llm_chain()
ChainCall ==
    /\ chain_pc = "built"
    /\ chain_tried' = IF chain_built # <<>> THEN chain_built
                      ELSE DefaultLLMChain(chain_cfg.gemini_model)
    /\ chain_pc' = "called"
    /\ UNCHANGED <<chain_cfg, chain_built>>

ChainIdle ==
    /\ chain_pc = "off"
    /\ chain_cfg = [setting |-> NoText, env |-> NoText, gemini_model |-> Null]
    /\ chain_built = <<>>
    /\ chain_tried = <<>>

\* ------------------------------------------------------------------------
\* CustomChromaClient.delete_documents_by_metadata and
\* DocumentService.delete_document
\* ------------------------------------------------------------------------
\* a metadata value: an int, a str (its text) or None (key absent)
IntValue(n) == [type |-> "int", int |-> n, text |-> ""]

StrValue(t) == [type |-> "str", int |-> 0, text |-> t]

NoneValue == [type |-> "none", int |-> 0, text |-> ""]

\* the decimal digits of the ids used
Digits(n) == IF n = 5 THEN "5" ELSE IF n = 7 THEN "7" ELSE "?"

\* str(value)
Str(value) ==
    IF value.type = "int" THEN StrValue(Digits(value.int))
    ELSE IF value.type = "none" THEN StrValue("None")
    ELSE value

\* Python ==, and the index's {"$eq": ...}: an int never equals a str
NativeEq(a, b) ==
    /\ a.type = b.type
    /\ a.type # "none"
    /\ a.int = b.int
    /\ a.text = b.text

\* doc_id == document_id or str(doc_id) == str(document_id)
ScanMatch(doc_id, document_id) ==
    NativeEq(doc_id, document_id) \/ NativeEq(Str(doc_id), Str(document_id))

\* what the index operations of one call do: "ok" or "raise"
IndexOutcomes == [get : {"ok", "raise"}, delete : {"ok", "raise"},
                  scan : {"ok", "raise"}, scan_delete : {"ok", "raise"}]

\* the try body of lines 210-221: filtered get, then delete of its ids
NativeDelete(store, document_id, outcomes) ==
    LET ids == {c.id : c \in {x \in store : NativeEq(x.document_id, document_id)}}
    IN IF outcomes.get = "raise"
       THEN [store |-> store, raised |-> TRUE, ops |-> <<"get">>]
       ELSE IF ids = {}
       THEN [store |-> store, raised |-> FALSE, ops |-> <<"get">>]
       ELSE IF outcomes.delete = "raise"
       THEN [store |-> store, raised |-> TRUE, ops |-> <<"get", "delete">>]
       ELSE [store |-> {c \in store : c.id \notin ids}, raised |-> FALSE,
             ops |-> <<"get", "delete">>]

\* the fallback of lines 226-241: get of everything, then delete of the
\* chunks whose document_id matches natively or as a string
ScanDelete(store, document_id, outcomes) ==
    LET ids_to_delete ==
            {c.id : c \in {x \in store : ScanMatch(x.document_id, document_id)}}
    IN IF outcomes.scan = "raise"
       THEN [store |-> store, raised |-> TRUE, ops |-> <<"scan">>]
       ELSE IF ids_to_delete = {}
       THEN [store |-> store, raised |-> FALSE, ops |-> <<"scan">>]
       ELSE IF outcomes.scan_delete = "raise"
       THEN [store |-> store, raised |-> TRUE, ops |-> <<"scan", "scan-delete">>]
       ELSE [store |-> {c \in store : c.id \notin ids_to_delete}, raised |-> FALSE,
             ops |-> <<"scan", "scan-delete">>]

\* delete_documents_by_metadata with the fallback left unguarded
DeleteDocumentsByMetadataUnguarded(store, document_id, outcomes) ==
    LET first == NativeDelete(store, document_id, outcomes)
        second == ScanDelete(first.store, document_id, outcomes)
    IN IF ~first.raised THEN first
       ELSE [second EXCEPT !.ops = first.ops \o second.ops]

\* delete_documents_by_metadata: the fallback runs when the try body raised,
\* and what the fallback raises is printed and dropped
DeleteDocumentsByMetadata(store, document_id, outcomes) ==
    LET first == NativeDelete(store, document_id, outcomes)
        second == ScanDelete(first.store, document_id, outcomes)
    IN IF ~first.raised THEN first
       ELSE [store |-> second.store, raised |-> FALSE, ops |-> first.ops \o second.ops]

\* the chunks of the collection before the call
MaxChunks == 3

DocumentIdValues == {IntValue(5), StrValue("5"), IntValue(7), NoneValue}

Collections ==
    { {[id |-> i, document_id |-> f[i]] : i \in DOMAIN f} :
        f \in UNION { [1..n -> DocumentIdValues] : n \in 1..MaxChunks } }

VARIABLES
    del_pc,       \* "cleanup", "file", "record", "done"
    del_id,       \* document.id
    del_store,    \* the chunks of the collection
    del_ops,      \* the index operations the cleanup performed
    del_failed,   \* whether an index operation raised
    del_file,     \* whether the stored file exists
    del_record,   \* whether the database record exists
    del_result,   \* what delete_document returned (Null: not yet)
    del_before    \* the collection and the file when the call began

delVars == <<del_pc, del_id, del_store, del_ops, del_failed, del_file, del_record,
             del_result, del_before>>

DelInit ==
    /\ del_pc = "cleanup"
    /\ del_id \in {5, 7}
    /\ del_store \in Collections
    /\ del_ops = <<>>
    /\ del_failed = FALSE
    /\ del_file \in BOOLEAN
    /\ del_record = TRUE
    /\ del_result = Null
    /\ del_before = [store |-> del_store, file |-> del_file]

\* self.retrieval_client.delete_documents_by_metadata(document.id); what it
\* raises ends delete_document in the except branch
DelCleanup ==
    /\ del_pc = "cleanup"
    /\ \E outcomes \in IndexOutcomes :
         LET r == DeleteDocumentsByMetadata(del_store, IntValue(del_id), outcomes)
             Failed(op) == \/ op = "get" /\ outcomes.get = "raise"
                           \/ op = "delete" /\ outcomes.delete = "raise"
                           \/ op = "scan" /\ outcomes.scan = "raise"
                           \/ op = "scan-delete" /\ outcomes.scan_delete = "raise"
         IN /\ del_store' = r.store
            /\ del_ops' = r.ops
            /\ del_failed' = \E i \in DOMAIN r.ops : Failed(r.ops[i])
            /\ IF r.raised
               THEN del_pc' = "done" /\ del_result' = "False"
               ELSE del_pc' = "file" /\ del_result' = del_result
    /\ UNCHANGED <<del_id, del_file, del_record, del_before>>

\* delete_file(document.file_path): never raises
DelFile ==
    /\ del_pc = "file"
    /\ del_file' = FALSE
    /\ del_pc' = "record"
    /\ UNCHANGED <<del_id, del_store, del_ops, del_failed, del_record, del_result, del_before>>

\* self.db.delete(document); self.db.commit(), or the rollback when they raise
DelRecord ==
    /\ del_pc = "record"
    /\ \E commit \in {"ok", "raise"} :
         IF commit = "ok"
         THEN del_record' = FALSE /\ del_result' = "True"
         ELSE del_record' = TRUE /\ del_result' = "False"
    /\ del_pc' = "done"
    /\ UNCHANGED <<del_id, del_store, del_ops, del_failed, del_file, del_before>>

DelIdle ==
    /\ del_pc = "off"
    /\ del_id = 0
    /\ del_store = {}
    /\ del_ops = <<>>
    /\ del_failed = FALSE
    /\ del_file = FALSE
    /\ del_record = FALSE
    /\ del_result = Null
    /\ del_before = [store |-> {}, file |-> FALSE]

\* ------------------------------------------------------------------------
\* CustomChromaClient.add_documents
\* ------------------------------------------------------------------------
\* str(uuid.uuid4()): the k-th generated id, a text no other call gives
Uuid4(k) == [type |-> "str", int |-> k, text |-> "uuid4"]

\* "id" in md and isinstance(md["id"], str)
HasStringId(md_id) == md_id.type = "str"

\* where the ids come from, with any id of the metadata taken as it is
BatchIdsAnyType(chunk, generated) ==
    [j \in DOMAIN chunk |-> IF chunk[j].type # "none" THEN chunk[j] ELSE Uuid4(generated + j)]

\* the ids of one batch: the metadata id when it is a str, else a new uuid4;
\* generated counts the uuid4 calls made before the batch
BatchIds(chunk, generated) ==
    [j \in DOMAIN chunk |->
        IF HasStringId(chunk[j]) THEN chunk[j]
        ELSE Uuid4(generated
                   + Cardinality({i \in 1..j : ~HasStringId(chunk[i])}))]

\* documents[start:start + batch_size], start counted from 0
BatchSlice(documents, start, batch_size) ==
    SubSeq(documents, start + 1, Min(start + batch_size, Len(documents)))

\* the documents of a call, each given by the "id" of its metadata
MaxDocs == 4

MaxBatch == 3

MetadataIds == {StrValue("a"), StrValue("b"), IntValue(5), NoneValue}

VARIABLES
    add_pc,          \* "call", "loop", "done"
    add_documents,   \* the documents of the call
    add_batch_size,  \* batch_size
    add_start,       \* start of the loop of line 105
    add_generated,   \* number of uuid4 calls made
    add_calls        \* the collection.add calls: sequences of [id, doc]

addVars == <<add_pc, add_documents, add_batch_size, add_start, add_generated, add_calls>>

AddInit ==
    /\ add_pc = "call"
    /\ add_documents \in UNION { [1..n -> MetadataIds] : n \in 0..MaxDocs }
    /\ add_batch_size \in 1..MaxBatch
    /\ add_start = 0
    /\ add_generated = 0
    /\ add_calls = <<>>

\* if not documents: return
AddStart ==
    /\ add_pc = "call"
    /\ add_pc' = IF add_documents = <<>> THEN "done" ELSE "loop"
    /\ UNCHANGED <<add_documents, add_batch_size, add_start, add_generated, add_calls>>

\* one pass of the loop over range(0, len(documents), batch_size)
AddBatch ==
    /\ add_pc = "loop"
    /\ LET chunk == BatchSlice(add_documents, add_start, add_batch_size)
           ids == BatchIds(chunk, add_generated)
       IN /\ add_calls' = Append(add_calls,
                                 [j \in DOMAIN chunk |->
                                    [id |-> ids[j], doc |-> add_start + j]])
          /\ add_generated' = add_generated
                                + Cardinality({j \in DOMAIN chunk : ~HasStringId(chunk[j])})
    /\ add_start' = add_start + add_batch_size
    /\ add_pc' = IF add_start + add_batch_size < Len(add_documents) THEN "loop" ELSE "done"
    /\ UNCHANGED <<add_documents, add_batch_size>>

AddIdle ==
    /\ add_pc = "off"
    /\ add_documents = <<>>
    /\ add_batch_size = 1
    /\ add_start = 0
    /\ add_generated = 0
    /\ add_calls = <<>>

\* ------------------------------------------------------------------------
\* The evidence excerpt of _summarize_with_llm
\* ------------------------------------------------------------------------
\* evidence lists: per document type a run of items with blank content and a
\* run of items with text, the blank ones first or last
MaxBlankItems == 4

MaxTextItems == 4

ExcerptTypes == <<"policy", "ops", Null>>

ItemsOfType(type, blanks, texts, blanks_first) ==
    LET blank == [k \in 1..blanks |-> [document_type |-> type, content |-> <<" ">>]]
        text == [k \in 1..texts |-> [document_type |-> type, content |-> <<"a">>]]
    IN IF blanks_first THEN blank \o text ELSE text \o blank

ExcerptEvidence ==
    { LET list == ItemsOfType(ExcerptTypes[1], b[1], g[1], first)
                    \o ItemsOfType(ExcerptTypes[2], b[2], g[2], first)
                    \o ItemsOfType(ExcerptTypes[3], b[3], g[3], first)
      IN [k \in DOMAIN list |->
            [id |-> k, document_type |-> list[k].document_type,
             content |-> list[k].content]] :
        b \in [1..3 -> 0..MaxBlankItems], g \in [1..3 -> 0..MaxTextItems],
        first \in BOOLEAN }

VARIABLES
    sum_pc,         \* "call", "built"
    sum_evidence,   \* the evidence passed to _summarize_with_llm
    sum_chunks      \* the items whose chunk is in the excerpt, in order

sumVars == <<sum_pc, sum_evidence, sum_chunks>>

SumInit ==
    /\ sum_pc = "call"
    /\ sum_evidence \in ExcerptEvidence
    /\ sum_chunks = <<>>

\* lines 568-593: the grouping by document_type and the two loops
SumBuild ==
    /\ sum_pc = "call"
    /\ sum_chunks' = Chunks(sum_evidence)
    /\ sum_pc' = "built"
    /\ UNCHANGED sum_evidence

SumIdle ==
    /\ sum_pc = "off"
    /\ sum_evidence = <<>>
    /\ sum_chunks = <<>>

\* ------------------------------------------------------------------------
\* SpoonAgentService.run_mcp_agent: requests sharing one agent behind
\* self._run_lock (an asyncio.Lock: first come, first served)
\* ------------------------------------------------------------------------
MaxRequests == 2

MaxAgentSteps == 2

Requests == 1..MaxRequests

\* no request: the lock is free, last_tool_error is None
NoRequest == 0

\* the agent after _reset_agent_state with only the memory cleared
ResetAgentStateMemoryOnly(agent) == [agent EXCEPT !.memory = <<>>]

\* _reset_agent_state: memory.clear(), tool_calls = [], last_tool_error = None
ResetAgentState(agent) ==
    [memory |-> <<>>, tool_calls |-> <<>>, last_tool_error |-> NoRequest]

\* the holder of the lock when a run that ended with outcome leaves a block
\* that releases the lock on normal exit only
LockAfterRunKeptOnError(holder, outcome) ==
    IF outcome = "ok" THEN NoRequest ELSE holder

\* async with self._run_lock: the lock is released however the block is left
LockAfterRun(holder, outcome) == NoRequest

\* what run_mcp_agent returns after a run of the agent, lines 173-193
AgentResult(agent, request, outcome) ==
    IF outcome = "ok"
    THEN [kind |-> "response", error |-> Null,
          response |-> IF agent.memory # <<>>
                       THEN agent.memory[Len(agent.memory)] ELSE request,
          tool_calls |-> agent.tool_calls,
          last_tool_error |-> agent.last_tool_error]
    ELSE [kind |-> "error",
          error |-> IF outcome = "timeout" THEN "Spoon MCP agent timed out."
                    ELSE "str(exc)",
          response |-> NoRequest, tool_calls |-> <<>>, last_tool_error |-> NoRequest]

NoAgentResult ==
    [kind |-> "none", error |-> Null, response |-> NoRequest, tool_calls |-> <<>>,
     last_tool_error |-> NoRequest]

VARIABLES
    agent_enabled,   \* self.enabled and self._agent
    agent_pc,        \* per request: "idle", "waiting", "running", "returned"
    agent_lock,      \* the request that holds self._run_lock, or NoRequest
    agent_waiters,   \* the requests waiting for the lock, first come first
    agent_state,     \* the agent's memory, tool_calls and last_tool_error; a
                     \* message and a tool call are named by the request whose
                     \* run made them
    agent_made,      \* per request: the tool calls its own run made
    agent_result     \* per request: what run_mcp_agent returned

agentVars == <<agent_enabled, agent_pc, agent_lock, agent_waiters, agent_state,
               agent_made, agent_result>>

AgentInit ==
    /\ agent_enabled \in BOOLEAN
    /\ agent_pc = [p \in Requests |-> "idle"]
    /\ agent_lock = NoRequest
    /\ agent_waiters = <<>>
    /\ agent_state = [memory |-> <<>>, tool_calls |-> <<>>, last_tool_error |-> NoRequest]
    /\ agent_made = [p \in Requests |-> 0]
    /\ agent_result = [p \in Requests |-> NoAgentResult]

\* entry of run_mcp_agent up to `async with self._run_lock`: the disabled
\* service returns at once; a free lock with nobody waiting is taken at once
\* and the agent reset; else the request queues
AgentCall(p) ==
    /\ agent_pc[p] = "idle"
    /\ IF ~agent_enabled
       THEN /\ agent_pc' = [agent_pc EXCEPT ![p] = "returned"]
            /\ agent_result' = [agent_result EXCEPT ![p] =
                                  [NoAgentResult EXCEPT
                                     !.kind = "error",
                                     !.error = "Spoon MCP agent is not enabled."]]
            /\ UNCHANGED <<agent_lock, agent_waiters, agent_state>>
       ELSE IF agent_lock = NoRequest /\ agent_waiters = <<>>
       THEN /\ agent_lock' = p
            /\ agent_state' = ResetAgentState(agent_state)
            /\ agent_pc' = [agent_pc EXCEPT ![p] = "running"]
            /\ UNCHANGED <<agent_waiters, agent_result>>
       ELSE /\ agent_waiters' = Append(agent_waiters, p)
            /\ agent_pc' = [agent_pc EXCEPT ![p] = "waiting"]
            /\ UNCHANGED <<agent_lock, agent_state, agent_result>>
    /\ UNCHANGED <<agent_enabled, agent_made>>

\* the first waiter is woken by the release and enters the block
AgentAcquire(p) ==
    /\ agent_pc[p] = "waiting"
    /\ agent_lock = NoRequest
    /\ agent_waiters # <<>>
    /\ Head(agent_waiters) = p
    /\ agent_lock' = p
    /\ agent_waiters' = Tail(agent_waiters)
    /\ agent_state' = ResetAgentState(agent_state)
    /\ agent_pc' = [agent_pc EXCEPT ![p] = "running"]
    /\ UNCHANGED <<agent_enabled, agent_made, agent_result>>

\* one step of self._agent.run(request=prompt): a tool call, which may fail,
\* and an assistant message
AgentStep(p) ==
    /\ agent_pc[p] = "running"
    /\ agent_made[p] < MaxAgentSteps
    /\ \E failed \in BOOLEAN :
         agent_state' = [memory |-> Append(agent_state.memory, p),
                         tool_calls |-> Append(agent_state.tool_calls, p),
                         last_tool_error |-> IF failed THEN p
                                             ELSE agent_state.last_tool_error]
    /\ agent_made' = [agent_made EXCEPT ![p] = @ + 1]
    /\ UNCHANGED <<agent_enabled, agent_pc, agent_lock, agent_waiters, agent_result>>

\* the awaited wait_for ends (the run returned, timed out or raised); the
\* result is built, finally resets the agent, and the lock is released
AgentEnd(p) ==
    /\ agent_pc[p] = "running"
    /\ \E outcome \in {"ok", "timeout", "raise"} :
         /\ agent_result' = [agent_result EXCEPT ![p] = AgentResult(agent_state, p, outcome)]
         /\ agent_lock' = LockAfterRun(agent_lock, outcome)
    /\ agent_state' = ResetAgentState(agent_state)
    /\ agent_pc' = [agent_pc EXCEPT ![p] = "returned"]
    /\ UNCHANGED <<agent_enabled, agent_waiters, agent_made>>

AgentIdle ==
    /\ agent_enabled = FALSE
    /\ agent_pc = [p \in Requests |-> "off"]
    /\ agent_lock = NoRequest
    /\ agent_waiters = <<>>
    /\ agent_state = [memory |-> <<>>, tool_calls |-> <<>>, last_tool_error |-> NoRequest]
    /\ agent_made = [p \in Requests |-> 0]
    /\ agent_result = [p \in Requests |-> NoAgentResult]

\* ------------------------------------------------------------------------
\* SpoonChatService.send_message: concurrent calls on one conversation
\* ------------------------------------------------------------------------
MaxChatCalls == 3

ChatCalls == 1..MaxChatCalls

ErrorResponse == "Xin loi, toi khong the tra loi cau hoi nay vao luc nay."

\* what _run_spoon_agent returns: a response with its provider, or an error
\* (service disabled, run_mcp_agent raised or returned no response)
SpoonResults ==
    { [response |-> "answer", provider_used |-> pr, error |-> Null] :
        pr \in {"spoon-vector", "spoon-upload", "spoon-agent"} } \cup
    { [response |-> r, provider_used |-> Null, error |-> "error"] : r \in {Null, ""} }

\* messages persisted before the agent run when the user's message is stored
\* on arrival
PersistedOnArrivalUserMessage(call) ==
    <<[call |-> call, role |-> "user", content |-> "question"]>>

\* messages persisted by send_message before awaiting _run_spoon_agent: none
PersistedOnArrival(call) == <<>>

\* the two create_message calls after the agent run, lines 47-57 and 71-80
PersistedAfterRun(call, spoon_result) ==
    <<[call |-> call, role |-> "user", content |-> "question"],
      [call |-> call, role |-> "assistant",
       content |-> IF Truthy(spoon_result.response) THEN spoon_result.response
                   ELSE ErrorResponse]>>

\* the dict send_message returns
ChatResult(spoon_result) ==
    IF Truthy(spoon_result.response)
    THEN [response |-> spoon_result.response,
          provider_used |-> IF Truthy(spoon_result.provider_used)
                            THEN spoon_result.provider_used ELSE "spoon-agent"]
    ELSE [response |-> ErrorResponse, provider_used |-> "spoon-error"]

NoChatResult == [response |-> Null, provider_used |-> Null]

VARIABLES
    chat_pc,        \* per call: "idle", "agent", "done", "raised"
    chat_messages,  \* the committed messages of the conversation, in order
    chat_result     \* per call: what send_message returned

chatVars == <<chat_pc, chat_messages, chat_result>>

ChatInit ==
    /\ chat_pc = [c \in ChatCalls |-> "idle"]
    /\ chat_messages = <<>>
    /\ chat_result = [c \in ChatCalls |-> NoChatResult]

\* get_conversation, then the await of _run_spoon_agent begins
ChatStart(c) ==
    /\ chat_pc[c] = "idle"
    /\ chat_messages' = chat_messages \o PersistedOnArrival(c)
    /\ chat_pc' = [chat_pc EXCEPT ![c] = "agent"]
    /\ UNCHANGED chat_result

\* _run_spoon_agent returns and send_message runs to its end with no further
\* await: two create_message calls, each a commit that can fail and raise
ChatFinish(c) ==
    /\ chat_pc[c] = "agent"
    /\ \E spoon_result \in SpoonResults, committed \in 0..2 :
         LET written == PersistedAfterRun(c, spoon_result)
         IN /\ chat_messages' = chat_messages \o SubSeq(written, 1, committed)
            /\ IF committed = 2
               THEN /\ chat_pc' = [chat_pc EXCEPT ![c] = "done"]
                    /\ chat_result' = [chat_result EXCEPT ![c] = ChatResult(spoon_result)]
               ELSE /\ chat_pc' = [chat_pc EXCEPT ![c] = "raised"]
                    /\ chat_result' = chat_result

ChatIdle ==
    /\ chat_pc = [c \in ChatCalls |-> "off"]
    /\ chat_messages = <<>>
    /\ chat_result = [c \in ChatCalls |-> NoChatResult]

\* ------------------------------------------------------------------------
\* DocumentService.upload_document
\* ------------------------------------------------------------------------
\* batch_size of add_documents, which upload_document leaves at its default
DEFAULT_BATCH_SIZE == 32

\* how many chunks parse_txt_file makes of the file
ChunkCounts == {0, 1, 31, 32, 33, 64, 65, 100}

\* the chunks of the document in the vector store after the except branch of
\* upload_document, which deletes the record and the file only
ChunksAfterExcept(stored) == stored

VARIABLES
    up_pc,       \* "call", "parse", "loop", "except", "done"
    up_input,    \* the file: is it .txt, is its size allowed, its chunks
    up_record,   \* the documents table holds the document
    up_file,     \* the storage holds the file
    up_stored,   \* chunks of the document in the vector store
    up_start,    \* start of the batch loop of add_documents
    up_result    \* "document", "400", "500", or Null while running

upVars == <<up_pc, up_input, up_record, up_file, up_stored, up_start, up_result>>

UpInit ==
    /\ up_pc = "call"
    /\ up_input \in [txt : BOOLEAN, size_ok : BOOLEAN, chunks : ChunkCounts]
    /\ up_record = FALSE
    /\ up_file = FALSE
    /\ up_stored = 0
    /\ up_start = 0
    /\ up_result = Null

\* the two validations, save_uploaded_file and the commit of the record
UpSave ==
    /\ up_pc = "call"
    /\ IF up_input.txt /\ up_input.size_ok
       THEN /\ up_file' = TRUE
            /\ up_record' = TRUE
            /\ up_pc' = "parse"
            /\ up_result' = up_result
       ELSE /\ up_pc' = "done"
            /\ up_result' = "400"
            /\ UNCHANGED <<up_file, up_record>>
    /\ UNCHANGED <<up_input, up_stored, up_start>>

\* parse_txt_file returns the chunks or raises; if chunks: add_documents
UpParse ==
    /\ up_pc = "parse"
    /\ \E raised \in BOOLEAN :
         IF raised THEN /\ up_pc' = "except"
                        /\ up_result' = up_result
         ELSE IF up_input.chunks = 0 THEN /\ up_pc' = "done"
                                          /\ up_result' = "document"
         ELSE /\ up_pc' = "loop"
              /\ up_result' = up_result
    /\ UNCHANGED <<up_input, up_record, up_file, up_stored, up_start>>

\* one pass of the loop of add_documents: the embedding or collection.add
\* raises, or the batch is in the collection
UpBatch ==
    /\ up_pc = "loop"
    /\ \E raised \in BOOLEAN :
         IF raised
         THEN /\ up_pc' = "except"
              /\ UNCHANGED <<up_stored, up_start, up_result>>
         ELSE /\ up_stored' = up_stored
                                + Min(DEFAULT_BATCH_SIZE, up_input.chunks - up_start)
              /\ up_start' = up_start + DEFAULT_BATCH_SIZE
              /\ IF up_start + DEFAULT_BATCH_SIZE < up_input.chunks
                 THEN /\ up_pc' = "loop"
                      /\ up_result' = up_result
                 ELSE /\ up_pc' = "done"
                      /\ up_result' = "document"
    /\ UNCHANGED <<up_input, up_record, up_file>>

\* except Exception: db.delete(document), commit, delete_file, raise 500
UpExcept ==
    /\ up_pc = "except"
    /\ up_record' = FALSE
    /\ up_file' = FALSE
    /\ up_stored' = ChunksAfterExcept(up_stored)
    /\ up_result' = "500"
    /\ up_pc' = "done"
    /\ UNCHANGED <<up_input, up_start>>

UpIdle ==
    /\ up_pc = "off"
    /\ up_input = [txt |-> FALSE, size_ok |-> FALSE, chunks |-> 0]
    /\ up_record = FALSE
    /\ up_file = FALSE
    /\ up_stored = 0
    /\ up_start = 0
    /\ up_result = Null

\* ------------------------------------------------------------------------
\* RAGGraphService: the linear graph of six nodes
\* ------------------------------------------------------------------------
\* the state keys the nodes after build_context read and write
RagInitialState ==
    [error |-> Null, response |-> <<>>, documents |-> FALSE, provider_used |-> Null]

\* f"Xin lỗi, đã xảy ra lỗi: {error}"
ErrorReply(error) == <<"Xin loi, da xay ra loi:", error>>

\* generate_fallback_response: the apology with an error when nothing was
\* retrieved, else a reply made of the documents
GenerateFallbackResponse(state) ==
    IF ~state.documents
    THEN [state EXCEPT !.response = <<"Xin loi, toi khong tim thay thong tin">>,
                       !.error = "No documents found",
                       !.provider_used = "fallback"]
    ELSE [state EXCEPT !.response = <<"Dua tren tai lieu cong ty">>,
                       !.provider_used = "fallback"]

\* the contents a model can reply with: a text or the empty string
ReplyContents == {<<"answer">>, <<>>}

\* handle_error: the default response when there is an error and no response
HandleError(state) ==
    IF state.error # Null /\ state.response = <<>>
    THEN [state EXCEPT !.response = ErrorReply(state.error)]
    ELSE state

VARIABLES
    rag_pc,      \* the node to run next, or "done"
    rag_state,   \* the graph state
    rag_saved,   \* the messages create_message committed, in order
    rag_result   \* the response generate_response returned (Null: not yet)

ragVars == <<rag_pc, rag_state, rag_saved, rag_result>>

RagInit ==
    /\ rag_pc = "load_conversation_history"
    /\ rag_state = RagInitialState
    /\ rag_saved = <<>>
    /\ rag_result = Null

RagLoadConversationHistory ==
    /\ rag_pc = "load_conversation_history"
    /\ \E raised \in BOOLEAN :
         rag_state' = IF raised
                      THEN [rag_state EXCEPT !.error = "Failed to load conversation history"]
                      ELSE rag_state
    /\ rag_pc' = "retrieve_documents"
    /\ UNCHANGED <<rag_saved, rag_result>>

RagRetrieveDocuments ==
    /\ rag_pc = "retrieve_documents"
    /\ \E outcome \in {"documents", "nothing", "raise"} :
         rag_state' =
           IF outcome = "raise"
           THEN [rag_state EXCEPT !.documents = FALSE,
                                  !.error = "Failed to retrieve documents"]
           ELSE [rag_state EXCEPT !.documents = (outcome = "documents")]
    /\ rag_pc' = "build_context"
    /\ UNCHANGED <<rag_saved, rag_result>>

RagBuildContext ==
    /\ rag_pc = "build_context"
    /\ \E raised \in BOOLEAN :
         rag_state' = IF raised
                      THEN [rag_state EXCEPT !.error = "Failed to build context"]
                      ELSE rag_state
    /\ rag_pc' = "generate_response"
    /\ UNCHANGED <<rag_saved, rag_result>>

\* generate_response: a Gemini model or Ollama replies, or the fallback
RagGenerateResponse ==
    /\ rag_pc = "generate_response"
    /\ \/ \E content \in ReplyContents, provider \in {"gemini", "ollama"} :
            rag_state' = [rag_state EXCEPT !.response = content,
                                           !.provider_used = provider]
       \/ rag_state' = GenerateFallbackResponse(rag_state)
    /\ rag_pc' = "save_message"
    /\ UNCHANGED <<rag_saved, rag_result>>

\* save_message: get_conversation, create_message twice, a last commit; any
\* of them can raise, and what was committed before stays
RagSaveMessage ==
    /\ rag_pc = "save_message"
    /\ \E committed \in 0..2, raised \in BOOLEAN :
         /\ committed < 2 => raised
         /\ rag_saved' = SubSeq(<<[role |-> "user", content |-> <<"question">>],
                                  [role |-> "assistant", content |-> rag_state.response]>>,
                                1, committed)
         /\ rag_state' = IF raised
                         THEN [rag_state EXCEPT !.error = "Failed to save messages"]
                         ELSE rag_state
    /\ rag_pc' = "handle_error"
    /\ UNCHANGED rag_result

\* handle_error, then RAGGraphService.generate_response returns the result
RagHandleError ==
    /\ rag_pc = "handle_error"
    /\ rag_state' = HandleError(rag_state)
    /\ rag_result' = [response |-> HandleError(rag_state).response,
                      provider_used |-> rag_state.provider_used]
    /\ rag_pc' = "done"
    /\ UNCHANGED rag_saved

RagIdle ==
    /\ rag_pc = "off"
    /\ rag_state = RagInitialState
    /\ rag_saved = <<>>
    /\ rag_result = Null

\* ------------------------------------------------------------------------
\* Specifications
\* ------------------------------------------------------------------------
LLMIdle ==
    /\ llm_manager = FALSE
    /\ llm_provider_chain = <<>>
    /\ llm_pc = "off"
    /\ llm_idx = 0
    /\ llm_calls = <<>>
    /\ llm_outcomes = <<>>
    /\ llm_result = NoResult

GenIdle ==
    /\ gen_manager = FALSE
    /\ gen_ollama = FALSE
    /\ gen_docs = 0
    /\ gen_pc = "off"
    /\ gen_model = 0
    /\ gen_attempt = 0
    /\ gen_calls = <<>>
    /\ gen_base = LLM_RETRY_BASE_DELAY
    /\ gen_sleep = 0
    /\ gen_result = GenNoResult

vars == <<llmVars, genVars, prioVars, runVars, preVars, citeVars, twiceVars, chainVars, delVars, addVars, sumVars, agentVars, chatVars, upVars, ragVars>>

\* _call_llm alone
InitLLM == LLMInit /\ GenIdle /\ PrioIdle /\ RunIdle /\ PreIdle /\ CiteIdle /\ TwiceIdle /\ ChainIdle /\ DelIdle /\ AddIdle /\ SumIdle /\ AgentIdle /\ ChatIdle /\ UpIdle /\ RagIdle

NextLLM ==
    \/ LLMStart /\ UNCHANGED <<genVars, prioVars, runVars, preVars, citeVars, twiceVars, chainVars, delVars, addVars, sumVars, agentVars, chatVars, upVars, ragVars>>
    \/ LLMTry /\ UNCHANGED <<genVars, prioVars, runVars, preVars, citeVars, twiceVars, chainVars, delVars, addVars, sumVars, agentVars, chatVars, upVars, ragVars>>

SpecLLM == InitLLM /\ [][NextLLM]_vars

\* generate_response alone
InitGen == GenInit /\ LLMIdle /\ PrioIdle /\ RunIdle /\ PreIdle /\ CiteIdle /\ TwiceIdle /\ ChainIdle /\ DelIdle /\ AddIdle /\ SumIdle /\ AgentIdle /\ ChatIdle /\ UpIdle /\ RagIdle

NextGen ==
    \/ GenStart /\ UNCHANGED <<llmVars, prioVars, runVars, preVars, citeVars, twiceVars, chainVars, delVars, addVars, sumVars, agentVars, chatVars, upVars, ragVars>>
    \/ GenCall /\ UNCHANGED <<llmVars, prioVars, runVars, preVars, citeVars, twiceVars, chainVars, delVars, addVars, sumVars, agentVars, chatVars, upVars, ragVars>>
    \/ GenSecondary /\ UNCHANGED <<llmVars, prioVars, runVars, preVars, citeVars, twiceVars, chainVars, delVars, addVars, sumVars, agentVars, chatVars, upVars, ragVars>>

SpecGen == InitGen /\ [][NextGen]_vars

\* generate_response as a coroutine that is run to its end: the event loop
\* resumes it after every awaited call and sleep
SpecGenFair == InitGen /\ [][NextGen]_vars /\ WF_vars(NextGen)

\* _prioritize_evidence alone
InitPrio == PrioInit /\ LLMIdle /\ GenIdle /\ RunIdle /\ PreIdle /\ CiteIdle /\ TwiceIdle /\ ChainIdle /\ DelIdle /\ AddIdle /\ SumIdle /\ AgentIdle /\ ChatIdle /\ UpIdle /\ RagIdle

NextPrio == Prioritize /\ UNCHANGED <<llmVars, genVars, runVars, preVars, citeVars, twiceVars, chainVars, delVars, addVars, sumVars, agentVars, chatVars, upVars, ragVars>>

SpecPrio == InitPrio /\ [][NextPrio]_vars

\* the preprocessing stages of run() alone
InitPre == PreInit /\ LLMIdle /\ GenIdle /\ PrioIdle /\ RunIdle /\ CiteIdle /\ TwiceIdle /\ ChainIdle /\ DelIdle /\ AddIdle /\ SumIdle /\ AgentIdle /\ ChatIdle /\ UpIdle /\ RagIdle

NextPre ==
    \/ PreClassify /\ UNCHANGED <<llmVars, genVars, prioVars, runVars, citeVars, twiceVars, chainVars, delVars, addVars, sumVars, agentVars, chatVars, upVars, ragVars>>
    \/ PreDerive /\ UNCHANGED <<llmVars, genVars, prioVars, runVars, citeVars, twiceVars, chainVars, delVars, addVars, sumVars, agentVars, chatVars, upVars, ragVars>>

SpecPre == InitPre /\ [][NextPre]_vars

\* _build_citation_section alone
InitCite == CiteInit /\ LLMIdle /\ GenIdle /\ PrioIdle /\ RunIdle /\ PreIdle /\ TwiceIdle /\ ChainIdle /\ DelIdle /\ AddIdle /\ SumIdle /\ AgentIdle /\ ChatIdle /\ UpIdle /\ RagIdle

NextCite == Cite /\ UNCHANGED <<llmVars, genVars, prioVars, runVars, preVars, twiceVars, chainVars, delVars, addVars, sumVars, agentVars, chatVars, upVars, ragVars>>

SpecCite == InitCite /\ [][NextCite]_vars

\* two calls of run() with the same arguments
InitTwice ==
    TwiceInit /\ LLMIdle /\ GenIdle /\ PrioIdle /\ RunIdle /\ PreIdle /\ CiteIdle /\ ChainIdle /\ DelIdle /\ AddIdle /\ SumIdle /\ AgentIdle /\ ChatIdle /\ UpIdle /\ RagIdle

NextTwice ==
    TwiceRun /\ UNCHANGED <<llmVars, genVars, prioVars, runVars, preVars, citeVars, chainVars, delVars, addVars, sumVars, agentVars, chatVars, upVars, ragVars>>

SpecTwice == InitTwice /\ [][NextTwice]_vars

\* run(), one request
Init == RunInit /\ GenIdle /\ PrioIdle /\ PreIdle /\ CiteIdle /\ TwiceIdle /\ ChainIdle /\ DelIdle /\ AddIdle /\ SumIdle /\ AgentIdle /\ ChatIdle /\ UpIdle /\ RagIdle

Next ==
    \/ RunStart /\ UNCHANGED <<llmVars, genVars, prioVars, preVars, citeVars, twiceVars, chainVars, delVars, addVars, sumVars, agentVars, chatVars, upVars, ragVars>>
    \/ RunRewrite /\ UNCHANGED <<llmVars, genVars, prioVars, preVars, citeVars, twiceVars, chainVars, delVars, addVars, sumVars, agentVars, chatVars, upVars, ragVars>>
    \/ RunClassify /\ UNCHANGED <<llmVars, genVars, prioVars, preVars, citeVars, twiceVars, chainVars, delVars, addVars, sumVars, agentVars, chatVars, upVars, ragVars>>
    \/ RunDerive /\ UNCHANGED <<llmVars, genVars, prioVars, preVars, citeVars, twiceVars, chainVars, delVars, addVars, sumVars, agentVars, chatVars, upVars, ragVars>>
    \/ \E tool \in AllTools : RunToolReturn(tool) /\ UNCHANGED <<llmVars, genVars, prioVars, preVars, citeVars, twiceVars, chainVars, delVars, addVars, sumVars, agentVars, chatVars, upVars, ragVars>>
    \/ RunAggregate /\ UNCHANGED <<llmVars, genVars, prioVars, preVars, citeVars, twiceVars, chainVars, delVars, addVars, sumVars, agentVars, chatVars, upVars, ragVars>>
    \/ RunSummarize /\ UNCHANGED <<llmVars, genVars, prioVars, preVars, citeVars, twiceVars, chainVars, delVars, addVars, sumVars, agentVars, chatVars, upVars, ragVars>>
    \/ RunFollowup /\ UNCHANGED <<llmVars, genVars, prioVars, preVars, citeVars, twiceVars, chainVars, delVars, addVars, sumVars, agentVars, chatVars, upVars, ragVars>>

Spec == Init /\ [][Next]_vars

\* the RAG graph alone
InitRag ==
    /\ RagInit
    /\ LLMIdle /\ GenIdle /\ PrioIdle /\ RunIdle /\ PreIdle /\ CiteIdle /\ TwiceIdle
    /\ ChainIdle /\ DelIdle /\ AddIdle /\ SumIdle /\ AgentIdle /\ ChatIdle /\ UpIdle

NextRag ==
    \/ RagLoadConversationHistory /\ UNCHANGED <<llmVars, genVars, prioVars, runVars, preVars, citeVars, twiceVars, chainVars, delVars, addVars, sumVars, agentVars, chatVars, upVars>>
    \/ RagRetrieveDocuments /\ UNCHANGED <<llmVars, genVars, prioVars, runVars, preVars, citeVars, twiceVars, chainVars, delVars, addVars, sumVars, agentVars, chatVars, upVars>>
    \/ RagBuildContext /\ UNCHANGED <<llmVars, genVars, prioVars, runVars, preVars, citeVars, twiceVars, chainVars, delVars, addVars, sumVars, agentVars, chatVars, upVars>>
    \/ RagGenerateResponse /\ UNCHANGED <<llmVars, genVars, prioVars, runVars, preVars, citeVars, twiceVars, chainVars, delVars, addVars, sumVars, agentVars, chatVars, upVars>>
    \/ RagSaveMessage /\ UNCHANGED <<llmVars, genVars, prioVars, runVars, preVars, citeVars, twiceVars, chainVars, delVars, addVars, sumVars, agentVars, chatVars, upVars>>
    \/ RagHandleError /\ UNCHANGED <<llmVars, genVars, prioVars, runVars, preVars, citeVars, twiceVars, chainVars, delVars, addVars, sumVars, agentVars, chatVars, upVars>>

SpecRag == InitRag /\ [][NextRag]_vars

\* upload_document alone
InitUp ==
    /\ UpInit
    /\ LLMIdle /\ GenIdle /\ PrioIdle /\ RunIdle /\ PreIdle /\ CiteIdle /\ TwiceIdle
    /\ ChainIdle /\ DelIdle /\ AddIdle /\ SumIdle /\ AgentIdle /\ ChatIdle /\ RagIdle

NextUp ==
    \/ UpSave /\ UNCHANGED <<llmVars, genVars, prioVars, runVars, preVars, citeVars, twiceVars, chainVars, delVars, addVars, sumVars, agentVars, chatVars, ragVars>>
    \/ UpParse /\ UNCHANGED <<llmVars, genVars, prioVars, runVars, preVars, citeVars, twiceVars, chainVars, delVars, addVars, sumVars, agentVars, chatVars, ragVars>>
    \/ UpBatch /\ UNCHANGED <<llmVars, genVars, prioVars, runVars, preVars, citeVars, twiceVars, chainVars, delVars, addVars, sumVars, agentVars, chatVars, ragVars>>
    \/ UpExcept /\ UNCHANGED <<llmVars, genVars, prioVars, runVars, preVars, citeVars, twiceVars, chainVars, delVars, addVars, sumVars, agentVars, chatVars, ragVars>>

SpecUp == InitUp /\ [][NextUp]_vars

\* concurrent send_message calls alone
InitChat ==
    /\ ChatInit
    /\ LLMIdle /\ GenIdle /\ PrioIdle /\ RunIdle /\ PreIdle /\ CiteIdle /\ TwiceIdle
    /\ ChainIdle /\ DelIdle /\ AddIdle /\ SumIdle /\ AgentIdle /\ UpIdle /\ RagIdle

NextChat ==
    \/ \E c \in ChatCalls : ChatStart(c) /\ UNCHANGED <<llmVars, genVars, prioVars, runVars, preVars, citeVars, twiceVars, chainVars, delVars, addVars, sumVars, agentVars, upVars, ragVars>>
    \/ \E c \in ChatCalls : ChatFinish(c) /\ UNCHANGED <<llmVars, genVars, prioVars, runVars, preVars, citeVars, twiceVars, chainVars, delVars, addVars, sumVars, agentVars, upVars, ragVars>>

SpecChat == InitChat /\ [][NextChat]_vars

\* concurrent run_mcp_agent calls alone
InitAgent ==
    /\ AgentInit
    /\ LLMIdle /\ GenIdle /\ PrioIdle /\ RunIdle /\ PreIdle /\ CiteIdle /\ TwiceIdle
    /\ ChainIdle /\ DelIdle /\ AddIdle /\ SumIdle /\ ChatIdle /\ UpIdle /\ RagIdle

NextAgent ==
    \/ \E p \in Requests : AgentCall(p) /\ UNCHANGED <<llmVars, genVars, prioVars, runVars, preVars, citeVars, twiceVars, chainVars, delVars, addVars, sumVars, chatVars, upVars, ragVars>>
    \/ \E p \in Requests : AgentAcquire(p) /\ UNCHANGED <<llmVars, genVars, prioVars, runVars, preVars, citeVars, twiceVars, chainVars, delVars, addVars, sumVars, chatVars, upVars, ragVars>>
    \/ \E p \in Requests : AgentStep(p) /\ UNCHANGED <<llmVars, genVars, prioVars, runVars, preVars, citeVars, twiceVars, chainVars, delVars, addVars, sumVars, chatVars, upVars, ragVars>>
    \/ \E p \in Requests : AgentEnd(p) /\ UNCHANGED <<llmVars, genVars, prioVars, runVars, preVars, citeVars, twiceVars, chainVars, delVars, addVars, sumVars, chatVars, upVars, ragVars>>

SpecAgent == InitAgent /\ [][NextAgent]_vars

\* the event loop resumes every task that can go on, and wait_for ends every
\* run of the agent
SpecAgentFair ==
    /\ InitAgent
    /\ [][NextAgent]_vars
    /\ \A p \in Requests : WF_agentVars(AgentAcquire(p)) /\ WF_agentVars(AgentEnd(p))

\* the excerpt of _summarize_with_llm alone
InitSum ==
    /\ SumInit
    /\ LLMIdle /\ GenIdle /\ PrioIdle /\ RunIdle /\ PreIdle /\ CiteIdle /\ TwiceIdle
    /\ ChainIdle /\ DelIdle /\ AddIdle /\ AgentIdle /\ ChatIdle /\ UpIdle /\ RagIdle

NextSum ==
    SumBuild /\ UNCHANGED <<llmVars, genVars, prioVars, runVars, preVars, citeVars, twiceVars, chainVars, delVars, addVars, agentVars, chatVars, upVars, ragVars>>

SpecSum == InitSum /\ [][NextSum]_vars

\* add_documents alone
InitAdd ==
    /\ AddInit
    /\ LLMIdle /\ GenIdle /\ PrioIdle /\ RunIdle /\ PreIdle /\ CiteIdle /\ TwiceIdle
    /\ ChainIdle /\ DelIdle /\ SumIdle /\ AgentIdle /\ ChatIdle /\ UpIdle /\ RagIdle

NextAdd ==
    \/ AddStart /\ UNCHANGED <<llmVars, genVars, prioVars, runVars, preVars, citeVars, twiceVars, chainVars, delVars, sumVars, agentVars, chatVars, upVars, ragVars>>
    \/ AddBatch /\ UNCHANGED <<llmVars, genVars, prioVars, runVars, preVars, citeVars, twiceVars, chainVars, delVars, sumVars, agentVars, chatVars, upVars, ragVars>>

SpecAdd == InitAdd /\ [][NextAdd]_vars

\* delete_document alone
InitDel ==
    /\ DelInit
    /\ LLMIdle /\ GenIdle /\ PrioIdle /\ RunIdle /\ PreIdle /\ CiteIdle /\ TwiceIdle
    /\ ChainIdle /\ AddIdle /\ SumIdle /\ AgentIdle /\ ChatIdle /\ UpIdle /\ RagIdle

NextDel ==
    \/ DelCleanup /\ UNCHANGED <<llmVars, genVars, prioVars, runVars, preVars, citeVars, twiceVars, chainVars, addVars, sumVars, agentVars, chatVars, upVars, ragVars>>
    \/ DelFile /\ UNCHANGED <<llmVars, genVars, prioVars, runVars, preVars, citeVars, twiceVars, chainVars, addVars, sumVars, agentVars, chatVars, upVars, ragVars>>
    \/ DelRecord /\ UNCHANGED <<llmVars, genVars, prioVars, runVars, preVars, citeVars, twiceVars, chainVars, addVars, sumVars, agentVars, chatVars, upVars, ragVars>>

SpecDel == InitDel /\ [][NextDel]_vars

\* the construction of the provider chain alone
InitChain ==
    ChainInit /\ LLMIdle /\ GenIdle /\ PrioIdle /\ RunIdle /\ PreIdle /\ CiteIdle /\ TwiceIdle /\ DelIdle /\ AddIdle /\ SumIdle /\ AgentIdle /\ ChatIdle /\ UpIdle /\ RagIdle

NextChain ==
    \/ ChainLoad /\ UNCHANGED <<llmVars, genVars, prioVars, runVars, preVars, citeVars, twiceVars, delVars, addVars, sumVars, agentVars, chatVars, upVars, ragVars>>
    \/ ChainCall /\ UNCHANGED <<llmVars, genVars, prioVars, runVars, preVars, citeVars, twiceVars, delVars, addVars, sumVars, agentVars, chatVars, upVars, ragVars>>

SpecChain == InitChain /\ [][NextChain]_vars

\* ------------------------------------------------------------------------
\* Properties of _call_llm
\* ------------------------------------------------------------------------
\* the response carries a text that is not only blanks
HasText(outcome) ==
    /\ ~outcome.raises
    /\ outcome.content # NoText
    /\ \E i \in DOMAIN outcome.content : outcome.content[i] # " "

\* t is s without its leading and trailing blanks
IsTrimOf(t, s) ==
    /\ t # <<>>
    /\ t[1] # " "
    /\ t[Len(t)] # " "
    /\ \E a \in 0..Len(s) :
         /\ a + Len(t) <= Len(s)
         /\ SubSeq(s, a + 1, a + Len(t)) = t
         /\ \A i \in 1..a : s[i] = " "
         /\ \A i \in (a + Len(t) + 1)..Len(s) : s[i] = " "

\* C1: the preferences are called in chain order, each at most once; the first
\* call that returns non-blank text ends the loop: _call_llm returns that text
\* trimmed, with the response's own provider if it reports one and the
\* preference's label otherwise, and calls no later preference.
C1_FirstResponderWins ==
    LET chain == Providers(llm_provider_chain)
        k == Len(llm_calls)
    IN /\ k <= Len(chain)
       /\ \A i \in 1..k : llm_calls[i] = i
       /\ \A i \in 1..k :
            HasText(llm_outcomes[i]) =>
              /\ i = k
              /\ llm_pc = "returned"
              /\ IsTrimOf(llm_result.content, llm_outcomes[i].content)
              /\ llm_result.provider =
                    IF Truthy(llm_outcomes[i].provider)
                    THEN llm_outcomes[i].provider
                    ELSE chain[i].label

\* the second preference answers with padded text and reports no provider
C1_Witness ==
    /\ llm_pc = "returned"
    /\ Len(llm_calls) = 2
    /\ llm_outcomes[2].content = <<" ", "a">>
    /\ llm_outcomes[2].provider = Null
    /\ llm_result.content = <<"a">>
    /\ llm_result.provider = llm_provider_chain[2].label

\* ------------------------------------------------------------------------
\* Properties of generate_response
\* ------------------------------------------------------------------------
\* C3: a rate-limit-class failure with attempts left is followed by the next
\* attempt of the same model; a success after N such failures is attempt N+1
\* of that model and ends the call with that model's text; a rate-limit-class
\* failure on the last attempt moves on to the next model (or, after the last
\* model, to the secondary stage).
C3_RetryThenAdvance ==
    \A p \in DOMAIN gen_calls :
      LET c == gen_calls[p]
          isLast == p = Len(gen_calls)
      IN c.target = "gemini" =>
           /\ c.attempt < LLM_RETRY_ATTEMPTS
           /\ (c.class = "ratelimit" /\ c.attempt + 1 < LLM_RETRY_ATTEMPTS) =>
                 IF isLast
                 THEN gen_pc = "primary" /\ gen_model = c.model
                      /\ gen_attempt = c.attempt + 1
                 ELSE gen_calls[p + 1].target = "gemini"
                      /\ gen_calls[p + 1].model = c.model
                      /\ gen_calls[p + 1].attempt = c.attempt + 1
           /\ (c.class = "ratelimit" /\ c.attempt + 1 = LLM_RETRY_ATTEMPTS) =>
                 IF isLast
                 THEN gen_model = c.model + 1 /\ gen_attempt = 0
                      /\ IF c.model = Len(GeminiModels)
                         THEN gen_pc \in {"secondary", "done"}
                         ELSE gen_pc = "primary"
                 ELSE \/ gen_calls[p + 1].target = "ollama"
                      \/ /\ gen_calls[p + 1].model = c.model + 1
                         /\ gen_calls[p + 1].attempt = 0
           /\ c.class = "ok" =>
                 /\ isLast
                 /\ gen_pc = "done"
                 /\ gen_result.kind = "llm"
                 /\ gen_result.provider_used = GeminiModels[c.model]
                 /\ p > c.attempt
                 /\ \A q \in (p - c.attempt)..(p - 1) :
                      /\ gen_calls[q].target = "gemini"
                      /\ gen_calls[q].model = c.model
                      /\ gen_calls[q].class = "ratelimit"

\* the first model is rate limited on all its attempts, the second one on
\* all but the last, which succeeds
C3_Witness ==
    /\ gen_pc = "done"
    /\ Len(gen_calls) = 2 * LLM_RETRY_ATTEMPTS
    /\ \A p \in 1..(2 * LLM_RETRY_ATTEMPTS - 1) : gen_calls[p].class = "ratelimit"
    /\ gen_calls[LLM_RETRY_ATTEMPTS].model = 1
    /\ gen_calls[2 * LLM_RETRY_ATTEMPTS].model = 2
    /\ gen_calls[2 * LLM_RETRY_ATTEMPTS].attempt = LLM_RETRY_ATTEMPTS - 1
    /\ gen_calls[2 * LLM_RETRY_ATTEMPTS].class = "ok"
    /\ gen_result.provider_used = GeminiModels[2]

OllamaCalls == {p \in DOMAIN gen_calls : gen_calls[p].target = "ollama"}

\* every model of the primary chain was called and none of the calls succeeded
PrimaryExhausted ==
    /\ \A m \in DOMAIN GeminiModels :
         \E q \in DOMAIN gen_calls :
           gen_calls[q].target = "gemini" /\ gen_calls[q].model = m
    /\ \A q \in DOMAIN gen_calls :
         gen_calls[q].target = "gemini" => gen_calls[q].class # "ok"

\* C4: the secondary provider is called at most once, only when enabled and
\* only after every primary model was called and failed; when it fails or is
\* disabled the result is the document fallback, never LLM text.
C4_SecondaryAfterPrimary ==
    /\ Cardinality(OllamaCalls) <= 1
    /\ \A p \in OllamaCalls :
         /\ gen_ollama
         /\ p = Len(gen_calls)
         /\ PrimaryExhausted
         /\ gen_pc = "done"
    /\ (gen_pc = "done" /\ PrimaryExhausted
          /\ \A p \in OllamaCalls : gen_calls[p].class # "ok") =>
         /\ gen_result.provider_used = "fallback"
         /\ gen_result.kind \in {"documents", "apology"}
         /\ (~gen_ollama => OllamaCalls = {})
    /\ gen_result.kind = "llm" =>
         /\ gen_calls # <<>>
         /\ gen_calls[Len(gen_calls)].class = "ok"

\* the enabled secondary provider fails after the whole primary chain did
C4_Witness ==
    /\ gen_pc = "done"
    /\ gen_ollama
    /\ PrimaryExhausted
    /\ OllamaCalls # {}
    /\ gen_calls[Len(gen_calls)].class = "error"
    /\ gen_result.kind = "documents"
    /\ gen_result.provider_used = "fallback"

\* ------------------------------------------------------------------------
\* Properties of _prioritize_evidence
\* ------------------------------------------------------------------------
\* number of items of bucket key among the first p items of seq
CountOfKey(seq, key, p) ==
    Cardinality({i \in 1..p : BucketKey(seq[i]) = key})

InputKeys == {BucketKey(prio_evidence[i]) : i \in DOMAIN prio_evidence}

\* every bucket has given min(3, size) items before any fourth item of a bucket
MinimumBeforeFourth ==
    /\ \A key \in InputKeys :
         CountOfKey(prio_out, key, Len(prio_out)) >=
           Min(MIN_PER_BUCKET, CountOfKey(prio_evidence, key, Len(prio_evidence)))
    /\ \A p \in DOMAIN prio_out :
         CountOfKey(prio_out, BucketKey(prio_out[p]), p) > MIN_PER_BUCKET =>
           \A key \in InputKeys :
             CountOfKey(prio_out, key, p - 1) >=
               Min(MIN_PER_BUCKET, CountOfKey(prio_evidence, key, Len(prio_evidence)))

C8_SingleToolSorted ==
    (prio_pc = "done" /\ Len(prio_tool_calls) = 1) =>
      /\ Len(prio_out) = Len(prio_evidence)
      /\ \A i \in DOMAIN prio_evidence :
           \E j \in DOMAIN prio_out : prio_out[j] = prio_evidence[i]
      /\ \A i, j \in DOMAIN prio_out :
           i < j =>
             /\ prio_out[i].distance = NoDistance => prio_out[j].distance = NoDistance
             /\ (prio_out[i].distance # NoDistance /\ prio_out[j].distance # NoDistance)
                   => prio_out[i].distance <= prio_out[j].distance
             /\ prio_out[i].distance = prio_out[j].distance
                   => prio_out[i].id < prio_out[j].id

\* an item without distance comes first in the input and last in the output,
\* behind two items of equal distance that keep their order
C8_Witness ==
    /\ prio_pc = "done"
    /\ Len(prio_tool_calls) = 1
    /\ Len(prio_evidence) = 3
    /\ prio_evidence[1].distance = NoDistance
    /\ prio_evidence[2].distance = 1
    /\ prio_evidence[3].distance = 1
    /\ prio_out = <<prio_evidence[2], prio_evidence[3], prio_evidence[1]>>

\* ------------------------------------------------------------------------
\* Properties of run()
\* ------------------------------------------------------------------------
\* run() has gone through the loop over the gathered results
Aggregation == run_pc \in {"summarize", "followup"} \/
               (run_pc = "done" /\ run_result.kind \in {"answer", "no-answer"})

PlannedTools == {run_pre.plan[i] : i \in DOMAIN run_pre.plan}

\* the call of tool returned a JSON object whose results are all objects
WellFormed(tool) ==
    /\ run_raw[tool].kind = "text"
    /\ run_raw[tool].type = "object"
    /\ run_raw[tool].results = "list"
    /\ \A i \in DOMAIN run_raw[tool].entries : run_raw[tool].entries[i].is_object

\* evidence is exactly the entries the call of tool returned, in their order
EvidenceOf(tool, evidence) ==
    /\ Len(evidence) = Len(run_raw[tool].entries)
    /\ \A i \in DOMAIN evidence :
         /\ evidence[i].content = run_raw[tool].entries[i].content
         /\ evidence[i].distance = run_raw[tool].entries[i].distance
         /\ evidence[i].retrieval_tool = tool

\* C2: when every preference of the summary call raises or returns empty
\* content, run() returns the snippet answer whenever the aggregated evidence
\* is non-empty, and the no-answer result only when there is no evidence.
C2_SnippetWheneverEvidence ==
    (run_pc = "done" /\ run_result.kind \in {"answer", "no-answer"}
        /\ run_llm.summary_failed) =>
      /\ run_agg.evidence # <<>> =>
           /\ run_result.kind = "answer"
           /\ run_result.response.kind = "snippet"
      /\ run_result.kind = "no-answer" => run_agg.evidence = <<>>

\* C5: with two planned tools the loop over the results starts only when both
\* calls have completed, and when one call raised, the entries the other call
\* returned are the evidence of the loop and of the returned answer.
C5_SiblingSurvivesFailure ==
    (Aggregation /\ Len(run_pre.plan) = 2) =>
      /\ \A tool \in PlannedTools :
           InSeq(tool, run_order) /\ run_raw[tool].kind # "pending"
      /\ \A failed, other \in PlannedTools :
           (failed # other /\ run_raw[failed].kind = "raises" /\ WellFormed(other)) =>
             /\ EvidenceOf(other, run_agg.evidence)
             /\ InSeq(other, run_agg.tool_calls)
             /\ run_result.kind = "answer" => EvidenceOf(other, run_result.evidence)

\* the policy call raises first, the ops call then returns an entry, and the
\* answer is built on that entry
C5_Witness ==
    /\ run_pc = "done"
    /\ run_result.kind = "answer"
    /\ run_pre.plan = <<PolicyTool, OpsTool>>
    /\ run_order = <<PolicyTool, OpsTool>>
    /\ run_raw[PolicyTool].kind = "raises"
    /\ run_raw[PolicyTool].message = "boom"
    /\ run_raw[OpsTool].entries = <<GoodEntry>>
    /\ Len(run_result.evidence) = 1
    /\ run_result.evidence[1].retrieval_tool = OpsTool
    /\ run_result.tool_calls = <<OpsTool>>

\* C6: the prioritized evidence, tool_calls and tool_runs are those computed
\* from the results taken in plan order, whatever the order in which the
\* calls completed.
C6_CompletionOrderUnobservable ==
    Aggregation =>
      LET in_plan_order == [i \in DOMAIN run_pre.plan |-> run_returned[run_pre.plan[i]]]
          agg == Aggregated(in_plan_order, run_pre.tool_queries)
      IN /\ run_agg.tool_calls = agg.tool_calls
         /\ run_agg.tool_runs = agg.tool_runs
         /\ run_agg.prioritized = PrioritizeEvidence(agg.evidence, agg.tool_calls)
         /\ run_pc = "done" => run_result.tool_runs = agg.tool_runs
         /\ run_result.kind = "answer" => run_result.tool_calls = agg.tool_calls

\* the ops call completes before the policy call, both with entries, and the
\* answer lists the policy tool first
C6_Witness ==
    /\ run_pc = "done"
    /\ run_result.kind = "answer"
    /\ run_pre.plan = <<PolicyTool, OpsTool>>
    /\ run_order = <<OpsTool, PolicyTool>>
    /\ run_raw[PolicyTool].entries = <<GoodEntry, GoodEntry>>
    /\ run_raw[OpsTool].entries = <<GoodEntry>>
    /\ run_result.tool_calls = <<PolicyTool, OpsTool>>
    /\ Len(run_agg.prioritized) = 3
    /\ run_agg.prioritized[1].retrieval_tool = PolicyTool

\* C9: whatever the intent and query-split calls return, the stage falls back
\* to its default and run() goes on: once run() has left the derive stage,
\* every planned tool has its query.
C9_ParseFallbackNeverRaises ==
    (run_in.enabled /\ run_pc \notin {"start", "rewrite", "classify", "derive"}) =>
      /\ run_pc # "raised" \/ run_order # <<>>
      /\ \A tool \in PlannedTools : tool \in DOMAIN run_pre.tool_queries

\* C10: whatever payload a tool call returns, run() does not raise once the
\* calls have completed, and keeps the entries of a well-formed sibling.
C10_MalformedPayloadOmitted ==
    (run_order # <<>> /\ run_pc # "retrieve") =>
      /\ run_pc # "raised"
      /\ \A bad, other \in PlannedTools :
           (bad # other /\ ~WellFormed(bad) /\ WellFormed(other)) =>
             EvidenceOf(other, run_agg.evidence)

\* ------------------------------------------------------------------------
\* Properties of the preprocessing stages
\* ------------------------------------------------------------------------
PrePlanned == {pre_intent.plan[i] : i \in DOMAIN pre_intent.plan}

\* C11: the split call is issued only for a plan of more than one tool; with
\* a single-tool plan no split call is made and the tool's query is the
\* rewritten query.
C11_SplitOnlyForMultiTool ==
    (pre_pc \in {"done", "raised"} /\ Len(pre_intent.plan) = 1) =>
      /\ ~pre_split.called
      /\ pre_split.queries[pre_intent.plan[1]] = pre_in.rewritten_query

\* the JSON value _split_query_by_intent reads out of the reply is an object
ReadsObject(reply) ==
    \/ reply.type = "object"
    \/ reply.type = "array_of_object" /\ reply.form # "fenced"

\* the field of the reply that belongs to the category of tool
OwnField(tool, reply) ==
    IF tool = PolicyTool THEN reply.policy_query ELSE reply.ops_query

\* the split produced a non-empty field for the category of tool
OwnFieldGiven(tool, reply) ==
    /\ ReadsObject(reply)
    /\ OwnField(tool, reply).type = "string"
    /\ \E i \in DOMAIN OwnField(tool, reply).text : OwnField(tool, reply).text[i] # " "

\* C12: when _derive_tool_queries returns, every planned tool and no other
\* has a query: the trimmed field of its own category when the reply that was
\* read holds a non-blank string there, and the rewritten query otherwise (so
\* for a failed call, an unparseable reply, or two empty fields).
C12_QueryPerPlannedTool ==
    pre_pc = "done" =>
      /\ DOMAIN pre_split.queries = PrePlanned
      /\ \A tool \in PrePlanned :
           IF OwnFieldGiven(tool, pre_split.reply)
           THEN IsTrimOf(pre_split.queries[tool], OwnField(tool, pre_split.reply).text)
           ELSE pre_split.queries[tool] = pre_in.rewritten_query

\* both tools planned; the reply gives a policy sub-query and a blank ops one
C12_Witness ==
    /\ pre_pc = "done"
    /\ pre_intent.plan = <<PolicyTool, OpsTool>>
    /\ pre_split.reply.policy_query.text = <<"w1">>
    /\ pre_split.reply.ops_query.type = "string"
    /\ pre_split.reply.ops_query.text = <<" ">>
    /\ pre_split.queries[PolicyTool] = <<"w1">>
    /\ pre_split.queries[OpsTool] = pre_in.rewritten_query

\* the text of the first chat call that returned a non-blank text, if any
FirstReply(outcomes) ==
    LET answered == {i \in DOMAIN outcomes : HasText(outcomes[i])}
    IN IF answered = {} THEN <<>>
       ELSE outcomes[CHOOSE i \in answered : \A j \in answered : i <= j].content

\* one of the comma-separated pieces of text is the word alone, in any case
HasToken(text, spellings) ==
    \E i \in DOMAIN text :
      /\ text[i] \in spellings
      /\ \A j \in 1..(i - 1) :
           (\A k \in j..(i - 1) : text[k] # ",") => text[j] = " "
      /\ \A j \in (i + 1)..Len(text) :
           (\A k \in (i + 1)..j : text[k] # ",") => text[j] = " "

\* C13: the intent is ambiguous when the reply lists policy and ops, policy
\* when it lists policy only, ops when it lists ops only, and ambiguous when
\* it lists neither, when no call returned text, or without an LLM manager.
C13_IntentTieBreak ==
    pre_pc # "classify" =>
      LET reply == FirstReply(pre_intent.outcomes)
          has_policy == HasToken(reply, {"policy", "POLICY", "Policy"})
          has_ops == HasToken(reply, {"ops", "OPS", "Ops"})
      IN pre_intent.intent =
           IF has_policy /\ has_ops THEN "ambiguous"
           ELSE IF has_policy THEN "policy"
           ELSE IF has_ops THEN "ops"
           ELSE "ambiguous"

\* the first preference raises and the second answers " Ops "
C13_Witness ==
    /\ pre_pc # "classify"
    /\ pre_in.manager
    /\ pre_intent.outcomes[1].raises
    /\ pre_intent.outcomes[2].content = <<" ", "Ops", " ">>
    /\ pre_intent.intent = "ops"

\* C14: the plan of a run is the one of its intent: the policy tool for
\* policy, the ops tool for ops, the policy tool then the ops tool for
\* ambiguous; the calls that complete are calls of planned tools.
C14_PlanOfIntent ==
    (run_in.enabled /\ run_pc \notin {"start", "rewrite", "classify"}) =>
      /\ run_pre.intent \in {"policy", "ops", "ambiguous"}
      /\ run_pre.intent = "policy" => run_pre.plan = <<PolicyTool>>
      /\ run_pre.intent = "ops" => run_pre.plan = <<OpsTool>>
      /\ run_pre.intent = "ambiguous" => run_pre.plan = <<PolicyTool, OpsTool>>
      /\ \A i \in DOMAIN run_order : InSeq(run_order[i], run_pre.plan)
      /\ \A i \in DOMAIN run_result.tool_calls : InSeq(run_result.tool_calls[i], run_pre.plan)

\* an ambiguous run in which the ops call completes first: the answer still
\* lists the policy tool before the ops tool
C14_Witness ==
    /\ run_pc = "done"
    /\ run_pre.intent = "ambiguous"
    /\ run_pre.plan = <<PolicyTool, OpsTool>>
    /\ run_order = <<OpsTool, PolicyTool>>
    /\ run_result.kind = "answer"
    /\ run_result.tool_calls = <<PolicyTool, OpsTool>>
    /\ run_pre.rewrite_provider # Null

\* ------------------------------------------------------------------------
\* Properties of the pipeline of run()
\* ------------------------------------------------------------------------
\* the place of an awaited call in the pipeline
StageRank(entry) ==
    CASE entry = "_rewrite_query" -> 1
      [] entry = "query-rewrite" -> 2
      [] entry = "_detect_intent" -> 3
      [] entry = "intent-detection" -> 4
      [] entry = "_plan_tools" -> 5
      [] entry = "_derive_tool_queries" -> 6
      [] entry = "intent-query-split" -> 7
      [] entry \in AllTools -> 8
      [] entry = "gather" -> 9
      [] entry = "_summarize_with_llm" -> 10
      [] entry = "answer-summary" -> 11
      [] entry = "_synthesize_response" -> 12
      [] entry = "_suggest_followups_llm" -> 13
      [] entry = "followup-suggestion" -> 14

\* the calls made so far follow the pipeline, none made twice; the intent is
\* asked of the rewritten query; the results are gathered when every planned
\* tool call has completed
StagesInOrder ==
    /\ \A i, j \in DOMAIN run_trace :
         i < j =>
           /\ run_trace[i] # run_trace[j]
           /\ StageRank(run_trace[i]) <= StageRank(run_trace[j])
    /\ InSeq("_plan_tools", run_trace) => run_pre.intent_query = run_pre.rewritten_query
    /\ \A i \in DOMAIN run_trace :
         run_trace[i] \in AllTools =>
           /\ InSeq(run_trace[i], run_pre.plan)
           /\ run_trace[i] \in DOMAIN run_pre.tool_queries
    /\ InSeq("gather", run_trace) =>
         \A i \in DOMAIN run_pre.plan : InSeq(run_pre.plan[i], run_trace)

\* C15: the stages of an enabled run() execute in pipeline order, each at
\* most once, and the run ends in exactly one of Success (a response) and
\* NoAnswer.
C15_PipelineToSuccessOrNoAnswer ==
    run_in.enabled =>
      /\ StagesInOrder
      /\ run_pc \in {"done", "raised"} => run_result.kind \in {"answer", "no-answer"}
      /\ run_result.kind = "answer" => run_result.response.kind # "none"
      /\ run_result.kind = "no-answer" => run_result.response.kind = "none"

\* C16: after the loop over the results, tool_runs has one entry per planned
\* tool, in plan order, and every entry has either a result_count (the number
\* of entries the call returned) or an error (the call raised), never both
\* and never neither; the returned dict carries the same list.
C16_OneRunPerPlannedTool ==
    Aggregation =>
      /\ Len(run_agg.tool_runs) = Len(run_pre.plan)
      /\ \A i \in DOMAIN run_agg.tool_runs :
           LET entry == run_agg.tool_runs[i]
           IN /\ entry.tool = run_pre.plan[i]
              /\ entry.has_error # entry.has_count
              /\ entry.has_error => run_raw[entry.tool].kind = "raises"
              /\ entry.has_count =>
                   entry.result_count = Len(run_raw[entry.tool].entries)
              /\ entry.query = run_pre.tool_queries[entry.tool]
      /\ run_pc = "done" => run_result.tool_runs = run_agg.tool_runs

\* the policy call raises and the ops call returns two entries
C16_Witness ==
    /\ run_pc = "done"
    /\ run_pre.plan = <<PolicyTool, OpsTool>>
    /\ run_raw[PolicyTool].kind = "raises"
    /\ Len(run_raw[OpsTool].entries) = 2
    /\ Len(run_result.tool_runs) = 2
    /\ run_result.tool_runs[1].has_error
    /\ ~run_result.tool_runs[1].has_count
    /\ run_result.tool_runs[2].has_count
    /\ run_result.tool_runs[2].result_count = 2

\* the categories of the items of a list
CategoriesOf(items) == {BucketKey(items[i]) : i \in DOMAIN items}

\* the items that have a snippet to show
WithSnippet(items) ==
    LET HasSnippet(item) == \E i \in DOMAIN item.content : item.content[i] # " "
    IN SelectSeq(items, HasSnippet)

\* C17: when the snippet answer is built from evidence that has snippets of
\* two categories, it holds at least one snippet of each of the two.
C17_SnippetFromBothCategories ==
    (run_pc = "done" /\ run_result.kind = "answer"
        /\ run_result.response.kind = "snippet"
        /\ Cardinality(CategoriesOf(WithSnippet(run_agg.prioritized))) = 2) =>
      CategoriesOf(run_result.response.lines) =
        CategoriesOf(WithSnippet(run_agg.prioritized))

\* run() planned both tools, and both calls returned a list of one or more
\* entries
BothToolsGaveEvidence ==
    /\ run_pc = "done"
    /\ run_pre.plan = <<PolicyTool, OpsTool>>
    /\ \A tool \in AllTools : WellFormed(tool) /\ run_raw[tool].entries # <<>>

\* C18 as stated: such a run returns tool_calls [policy_txt_lookup,
\* ops_txt_lookup], a non-empty response, and an answer_mode that is
\* llm-summary or snippet.
C18_AnswerModeSummaryOrSnippet ==
    BothToolsGaveEvidence =>
      /\ run_result.kind = "answer"
      /\ run_result.tool_calls = <<PolicyTool, OpsTool>>
      /\ run_result.response.kind # "none"
      /\ run_result.answer_mode \in {"llm-summary", "snippet"}

\* ------------------------------------------------------------------------
\* Properties of _build_citation_section
\* ------------------------------------------------------------------------
\* the items the citations may come from: the first 2 x limit
CiteScope == 1..Min(Len(cite_evidence), 2 * cite_limit)

\* the name under which the item at place i is cited
CitedAs(i) ==
    IF cite_evidence[i].filename # Null THEN cite_evidence[i].filename
    ELSE IF cite_evidence[i].source # Null THEN cite_evidence[i].source
    ELSE "Tai lieu"

\* the line stands for the item at place i
LineOfItem(line, i) ==
    /\ line.filename.name = CitedAs(i)
    /\ line.filename.idx # 0 => line.filename.idx = i

\* the first place in scope of the file of the line
FirstPlace(line) ==
    CHOOSE i \in CiteScope :
      LineOfItem(line, i) /\ \A j \in CiteScope : LineOfItem(line, j) => i <= j

C21_ReturnsPrioritizedEvidence ==
    (run_pc = "done" /\ run_result.kind = "answer") =>
      run_result.evidence = run_agg.prioritized

\* the words of the user's query
UserWords == {i \in DOMAIN run_in.user_query : run_in.user_query[i] # " "}

\* C22: the rewrite stage never raises (a run that raises has gone past it); it
\* makes no chat call when the query has at most four
\* words, when there is no LLM manager, or when rewrite is false; in those
\* cases, and when every chat call of the stage fails or returns only blanks,
\* the later stages get the user's query unchanged and no rewrite provider.
C22_RewriteSkippedOrUnchanged ==
    (run_in.enabled /\ run_pc \notin {"start", "rewrite"}) =>
      /\ (Cardinality(UserWords) <= 4 \/ ~llm_manager \/ ~run_in.rewrite) =>
           /\ ~InSeq("query-rewrite", run_trace)
           /\ run_pre.rewritten_query = run_in.user_query
           /\ run_pre.rewrite_provider = Null
      /\ run_llm.rewrite_failed =>
           /\ run_pre.rewritten_query = run_in.user_query
           /\ run_pre.rewrite_provider = Null
      /\ run_pc = "raised" => InSeq("_detect_intent", run_trace)
      /\ InSeq("query-rewrite", run_trace) =>
           /\ run_in.rewrite /\ llm_manager /\ Cardinality(UserWords) > 4
           /\ run_llm.rewrite_failed \/ run_pre.rewrite_provider # Null

\* a query of four words with rewrite asked for and a manager at hand: no
\* chat call, and the run completes on the user's query
C22_Witness ==
    /\ run_pc = "done"
    /\ run_in.rewrite
    /\ llm_manager
    /\ Cardinality(UserWords) = 4
    /\ Len(run_trace) >= 2
    /\ run_trace[1] = "_rewrite_query"
    /\ run_trace[2] = "_detect_intent"
    /\ run_pre.rewritten_query = run_in.user_query
    /\ run_result.kind = "answer"

\* C23: a run that ends in the no-answer outcome returns the graph-no-answer
\* error with no response text, and its metadata holds the detected intent,
\* one run record per gathered tool result, the rewritten query (None when
\* rewrite was false) and the suggestions; the suggestions are None when the
\* follow-up call gave no text, and the outcome is no-answer either way.
C23_NoAnswerCarriesDiagnostics ==
    /\ InSeq("_suggest_followups_llm", run_trace) =>
         run_pc = "done" /\ run_result.kind = "no-answer"
    /\ (run_pc = "done" /\ run_result.kind = "no-answer") =>
         /\ InSeq("_suggest_followups_llm", run_trace)
         /\ run_result.error = "graph-no-answer"
         /\ run_result.response = NoResponse
         /\ run_result.evidence = <<>>
         /\ run_result.intent = run_pre.intent
         /\ run_result.intent \in {"policy", "ops", "ambiguous"}
         /\ run_result.tool_runs = run_agg.tool_runs
         /\ Len(run_result.tool_runs) = Len(run_pre.plan)
         /\ run_result.rewritten_query =
              (IF run_in.rewrite THEN run_pre.rewritten_query ELSE NoText)
         /\ run_llm.followup <=> run_result.suggestions # NoText
         /\ run_result.suggestions # NoText => run_result.suggestions \in FollowupReplies

\* no tool gave evidence, the query was rewritten and kept in the metadata,
\* and every provider failed on the follow-up call
C23_Witness ==
    /\ run_pc = "done"
    /\ run_result.kind = "no-answer"
    /\ run_in.rewrite
    /\ InSeq("query-rewrite", run_trace)
    /\ run_result.rewritten_query # run_in.user_query
    /\ Len(run_result.tool_runs) = 2
    /\ llm_manager
    /\ ~run_llm.followup
    /\ run_result.suggestions = NoText

\* the configuration text __init__ reads: the setting unless it is None or
\* empty, else the environment variable
ConfiguredChain ==
    IF chain_cfg.setting # NoText /\ chain_cfg.setting # <<>>
    THEN chain_cfg.setting ELSE chain_cfg.env

\* the entries of the configuration text that _parse_provider_entry accepts
RecognizedEntries ==
    IF ConfiguredChain = NoText THEN <<>>
    ELSE LET items == SplitComma(ConfiguredChain)
             Accepted(item) == ParseProviderEntry(item) # NoPreference
         IN SelectSeq(items, Accepted)

\* C24: whatever the chain configuration (unset, empty, only unrecognized
\* entries, or some recognized ones), the chain stored at construction is
\* non-empty, its entries are the recognized entries in configured order (the
\* default chain when there is none), and _call_llm iterates over that chain.
C24_ChainNeverEmpty ==
    /\ chain_pc \in {"built", "called"} =>
         /\ Len(chain_built) >= 1
         /\ \A i \in DOMAIN chain_built : chain_built[i] # NoPreference
         /\ RecognizedEntries # <<>> =>
              /\ Len(chain_built) = Len(RecognizedEntries)
              /\ \A i \in DOMAIN chain_built :
                   chain_built[i].label = Strip(RecognizedEntries[i])
         /\ RecognizedEntries = <<>> =>
              /\ Len(chain_built) >= 2
              /\ \A i \in DOMAIN chain_built : chain_built[i].provider = "gemini"
    /\ chain_pc = "called" =>
         /\ Len(chain_tried) >= 1
         /\ chain_tried = chain_built

\* a configuration made only of unrecognized entries, and _call_llm reached
C24_Witness ==
    /\ chain_pc = "called"
    /\ chain_cfg.setting = <<"foo", ":", "m", ",", "foo">>
    /\ chain_cfg.env = <<"foo">>
    /\ chain_cfg.gemini_model = "Gemini-2.0-Flash"
    /\ Len(chain_tried) = 2

\* two recognized entries around nothing else keep their configured order
C24_OrderWitness ==
    /\ chain_pc = "built"
    /\ chain_cfg.setting = <<" ", "openai", ",", "Auto">>
    /\ chain_built[1].provider = "openai"
    /\ chain_built[2].label = <<"Auto">>

\* the chunks of the collection stored under the document's id, as an int or
\* as the str of that int
StoredUnder(store, id) ==
    {c \in store : c.document_id \in {IntValue(id), StrValue(Digits(id))}}

\* C25: when the filtered get of the cleanup finds no chunk, the full scan
\* runs and deletes every chunk whose document_id is the id natively or as a
\* string, so no chunk stored under 5 or "5" is left after the call for 5.
C25_NoMatchFallsBackToScan ==
    (del_pc # "cleanup" /\ del_ops = <<"get">> /\ ~del_failed) =>
      StoredUnder(del_store, del_id) = {}

RECURSIVE Flatten(_)
Flatten(calls) == IF calls = <<>> THEN <<>> ELSE Head(calls) \o Flatten(Tail(calls))

\* C27: add_documents passes every document to collection.add exactly once
\* and in input order, in batches that are full (batch_size items) except
\* possibly the last, none empty; an item's id is the 'id' of its metadata
\* when that is a string, and otherwise a generated id that no other item has.
C27_EveryDocumentOnceInBatches ==
    add_pc = "done" =>
      LET added == Flatten(add_calls)
      IN /\ Len(added) = Len(add_documents)
         /\ \A k \in DOMAIN added : added[k].doc = k
         /\ \A b \in DOMAIN add_calls :
              /\ Len(add_calls[b]) >= 1
              /\ Len(add_calls[b]) <= add_batch_size
              /\ b < Len(add_calls) => Len(add_calls[b]) = add_batch_size
         /\ \A k \in DOMAIN added :
              IF add_documents[k].type = "str"
              THEN added[k].id = add_documents[k]
              ELSE /\ added[k].id.type = "str"
                   /\ added[k].id \notin MetadataIds
                   /\ \A m \in DOMAIN added : m # k => added[m].id # added[k].id

\* four documents in batches of three: a full batch and a last batch of one,
\* with a generated id in each of the two
C27_Witness ==
    /\ add_pc = "done"
    /\ add_batch_size = 3
    /\ Len(add_documents) = 4
    /\ add_documents[2] = IntValue(5)
    /\ add_documents[4] = NoneValue
    /\ add_documents[1] = StrValue("a")
    /\ Len(add_calls) = 2
    /\ add_calls[1][1].id = StrValue("a")
    /\ add_calls[2][1].id # add_calls[1][2].id

\* the excerpt holds at most TOTAL_LIMIT chunks and at most MAX_PER_TYPE of a
\* category, each of an evidence item with text
ExcerptBounded ==
    sum_pc = "built" =>
      /\ Len(sum_chunks) <= 8
      /\ \A i \in DOMAIN sum_chunks :
           /\ InSeq(sum_chunks[i], sum_evidence)
           /\ ~IsBlank(sum_chunks[i].content)
           /\ Cardinality({j \in DOMAIN sum_chunks :
                             TypeOrOther(sum_chunks[j]) = TypeOrOther(sum_chunks[i])}) <= 4

\* C28: the excerpt sent to the LLM holds at most 8 chunks and at most 4 of a
\* category, and every category that has an evidence item with non-empty
\* content has at least one chunk in it.
C28_EveryCategoryInExcerpt ==
    /\ ExcerptBounded
    /\ (sum_pc = "built" /\ sum_chunks # <<>>) =>
         \A i \in DOMAIN sum_evidence :
           ~IsBlank(sum_evidence[i].content) =>
             \E j \in DOMAIN sum_chunks :
               TypeOrOther(sum_chunks[j]) = TypeOrOther(sum_evidence[i])

\* the gemini calls of the log
GeminiCalls == {p \in DOMAIN gen_calls : gen_calls[p].target = "gemini"}

\* C29: the delay slept after attempt a of a model failed with a rate-limit
\* error is min(base_delay * 2^a, max_delay) plus a jitter between 0 and 1
\* second; before the jitter it never exceeds max_delay and never decreases
\* from one attempt of a model to the next, and nothing is slept after the
\* last allowed attempt of a model.
C29_BackoffDelay ==
    /\ \A p \in GeminiCalls :
         LET c == gen_calls[p]
             doubled == gen_base * 2^c.attempt
         IN /\ c.slept <=>
                 (c.branch \in {"typed", "marker"} /\ c.attempt < LLM_RETRY_ATTEMPTS - 1)
            /\ c.attempt = LLM_RETRY_ATTEMPTS - 1 => ~c.slept
            /\ c.slept =>
                 /\ c.delay <= LLM_RETRY_MAX_DELAY
                 /\ c.delay <= doubled
                 /\ c.delay = doubled \/ c.delay = LLM_RETRY_MAX_DELAY
                 /\ \A q \in GeminiCalls :
                      (q < p /\ gen_calls[q].model = c.model /\ gen_calls[q].slept) =>
                        gen_calls[q].delay <= c.delay
    /\ (gen_calls # <<>> /\ gen_calls[Len(gen_calls)].slept) =>
         /\ gen_sleep >= 10 * gen_calls[Len(gen_calls)].delay
         /\ gen_sleep <= 10 * gen_calls[Len(gen_calls)].delay + 10

\* base delay 40: 40 s after the first attempt, the cap of 60 s after the
\* second, nothing after the third, and the next model is called
C29_Witness ==
    /\ gen_base = 40
    /\ Len(gen_calls) = LLM_RETRY_ATTEMPTS + 1
    /\ gen_calls[1].slept /\ gen_calls[1].delay = 40
    /\ gen_calls[2].slept /\ gen_calls[2].delay = LLM_RETRY_MAX_DELAY
    /\ gen_calls[3].branch = "typed" /\ ~gen_calls[3].slept
    /\ gen_calls[4].model = 2
    /\ gen_sleep = 10 * LLM_RETRY_MAX_DELAY + 5

\* what follows call p in the log: nothing yet, the secondary provider, or the
\* first attempt of the next model
AdvancesAfter(p) ==
    /\ \A q \in GeminiCalls : q > p => gen_calls[q].model > gen_calls[p].model
    /\ p < Len(gen_calls) =>
         \/ gen_calls[p + 1].target = "ollama"
         \/ /\ gen_calls[p + 1].model = gen_calls[p].model + 1
            /\ gen_calls[p + 1].attempt = 0

\* what follows call p in the log: nothing yet, or the next attempt of the
\* same model
RetriesAfter(p) ==
    p < Len(gen_calls) =>
      /\ gen_calls[p + 1].target = "gemini"
      /\ gen_calls[p + 1].model = gen_calls[p].model
      /\ gen_calls[p + 1].attempt = gen_calls[p].attempt + 1

\* C30: a failure that is neither a RateLimitError nor an error whose message
\* has 'rate limit', 'quota' or '429' goes to the next model at once, with no
\* further call of the failing model and no sleep; an untyped error with such
\* a message is handled as a RateLimitError is: slept and retried while
\* attempts remain, else on to the next model.
C30_OtherErrorsAdvanceAtOnce ==
    \A p \in GeminiCalls :
      LET c == gen_calls[p]
      IN /\ c.branch = "other" => ~c.slept /\ AdvancesAfter(p)
         /\ c.branch \in {"typed", "marker"} =>
              IF c.attempt < LLM_RETRY_ATTEMPTS - 1
              THEN c.slept /\ RetriesAfter(p)
              ELSE ~c.slept /\ AdvancesAfter(p)

\* the first model fails with a plain error on its first attempt; the second
\* fails with an untyped error that has a marker, and is called again
C30_Witness ==
    /\ Len(gen_calls) = 3
    /\ gen_calls[1].branch = "other" /\ gen_calls[1].attempt = 0
    /\ gen_calls[2].model = 2 /\ gen_calls[2].branch = "marker" /\ gen_calls[2].slept
    /\ gen_calls[3].model = 2 /\ gen_calls[3].attempt = 1

\* C31: the provider chain is fixed at construction: no step of _call_llm
\* adds, removes, reorders or alters a preference or its keyword overrides,
\* and the keyword arguments of a chat call are those of the stored preference
\* with its provider.
C31_ChainFixedAtConstruction ==
    [][/\ llm_provider_chain' = llm_provider_chain
       /\ \A i \in DOMAIN llm_provider_chain' :
            /\ llm_provider_chain'[i] \in Preferences
            /\ llm_provider_chain'[i].kwargs_provider = Null
            /\ ChatKwargs(llm_provider_chain'[i]).model = llm_provider_chain[i].model]_vars

\* both preferences of a chain were tried, the first one with a provider name
\* to put into the keyword arguments
C31_Witness ==
    /\ llm_pc = "returned"
    /\ Len(llm_calls) = 2
    /\ Len(llm_provider_chain) = 2
    /\ llm_provider_chain[1].provider = "gemini"
    /\ llm_provider_chain[1].model = "gemini-2.0-flash"
    /\ ChatKwargs(llm_provider_chain[1]).provider = "gemini"

\* C32: a planned tool whose execute call raised, whatever the message of the
\* exception, has a tool_runs entry with an error, gives no evidence and is
\* absent from tool_calls.
C32_RaisedToolIsAnErrorRun ==
    Aggregation =>
      \A tool \in PlannedTools :
        run_raw[tool].kind = "raises" =>
          /\ \E i \in DOMAIN run_agg.tool_runs :
               /\ run_agg.tool_runs[i].tool = tool
               /\ run_agg.tool_runs[i].has_error
          /\ \A i \in DOMAIN run_agg.evidence :
               run_agg.evidence[i].retrieval_tool # tool
          /\ ~InSeq(tool, run_agg.tool_calls)

\* C33: generate_response terminates: it makes at most (number of primary
\* models) x LLM_RETRY_ATTEMPTS primary calls and at most one call of the
\* secondary provider, and it ends by returning a result (an LLM answer, the
\* document fallback, the apology or the no-manager error), never by raising.
C33_GenerateResponseTerminates ==
    /\ [](/\ Cardinality(GeminiCalls) <= Len(GeminiModels) * LLM_RETRY_ATTEMPTS
          /\ Cardinality(DOMAIN gen_calls \ GeminiCalls) <= 1
          /\ \A p \in GeminiCalls :
               /\ gen_calls[p].model \in DOMAIN GeminiModels
               /\ gen_calls[p].attempt \in 0..(LLM_RETRY_ATTEMPTS - 1)
               /\ \A q \in GeminiCalls :
                    (gen_calls[q].model = gen_calls[p].model
                       /\ gen_calls[q].attempt = gen_calls[p].attempt) => q = p
          /\ gen_pc \in {"start", "primary", "secondary", "done"}
          /\ gen_pc = "done" =>
               gen_result.kind \in {"llm", "documents", "apology", "empty"})
    /\ <>[](gen_pc = "done")

\* every attempt of every primary model is rate limited and the secondary
\* provider fails: nine primary calls, one secondary call, and the fallback
C33_Witness ==
    /\ gen_pc = "done"
    /\ Cardinality(GeminiCalls) = Len(GeminiModels) * LLM_RETRY_ATTEMPTS
    /\ Len(gen_calls) = Len(GeminiModels) * LLM_RETRY_ATTEMPTS + 1
    /\ gen_calls[Len(gen_calls)].class = "error"
    /\ gen_result.provider_used = "fallback"

\* C34: at most one run of the agent is in progress at any time, the running
\* request being the holder of the lock, and the tool_calls and
\* last_tool_error a request gets back are those of its own run only.
C34_RunsMutuallyExclusive ==
    /\ \A p, q \in Requests :
         (agent_pc[p] = "running" /\ agent_pc[q] = "running") => p = q
    /\ \A p \in Requests : agent_pc[p] = "running" <=> agent_lock = p
    /\ \A p \in Requests :
         /\ agent_pc[p] = "running" =>
              /\ \A i \in DOMAIN agent_state.tool_calls : agent_state.tool_calls[i] = p
              /\ Len(agent_state.tool_calls) = agent_made[p]
              /\ agent_state.last_tool_error \in {NoRequest, p}
         /\ agent_result[p].kind = "response" =>
              /\ \A i \in DOMAIN agent_result[p].tool_calls :
                   agent_result[p].tool_calls[i] = p
              /\ Len(agent_result[p].tool_calls) = agent_made[p]
              /\ agent_result[p].last_tool_error \in {NoRequest, p}
              /\ agent_result[p].response = p

\* the second request queued while the first was running with a failed tool
\* call, then ran itself and got back its own two tool calls and no error
C34_Witness ==
    /\ agent_pc = [p \in Requests |-> "returned"]
    /\ agent_result[1].kind = "response"
    /\ agent_result[1].last_tool_error = 1
    /\ Len(agent_result[1].tool_calls) = 1
    /\ agent_result[2].kind = "response"
    /\ agent_result[2].tool_calls = <<2, 2>>
    /\ agent_result[2].last_tool_error = NoRequest

WrittenBy(c) == {i \in DOMAIN chat_messages : chat_messages[i].call = c}

C37_FailedUploadLeavesNoTrace ==
    up_result = "500" => (~up_record /\ ~up_file /\ up_stored = 0)

\* C38: delete_document is all-or-nothing: when it returned True no chunk of
\* the document, no stored file and no database record is left, and when it
\* returned False the collection, the file and the record are as they were
\* when the call began.
C38_DeleteAllOrNothing ==
    del_pc = "done" =>
      /\ del_result = "True" =>
           (StoredUnder(del_store, del_id) = {} /\ ~del_file /\ ~del_record)
      /\ del_result = "False" =>
           (del_store = del_before.store /\ del_file = del_before.file /\ del_record)

\* C39: when the RAG graph has run, the content of the assistant message
\* that save_message persisted equals the response returned to the caller,
\* whichever stages failed.
C39_PersistedEqualsReturned ==
    rag_pc = "done" =>
      \A i \in DOMAIN rag_saved :
        rag_saved[i].role = "assistant" => rag_saved[i].content = rag_result.response

====
